---- MODULE Spec2Model ----
(***************************************************************************)
(* Model of the LCSC catalog harvesters of this repository:                *)
(*   range.py          multi-category harvest over the JSON product API    *)
(*   rangeWithSpecs.py the same harvest loop (plus a specs column)         *)
(*   single.py         one category over the JSON product API              *)
(*   chatgpt_v2.py     one category over the JSON API, fixed page budget   *)
(*   claude.py         one category over rendered pages, regex extraction  *)
(*   main.py           the first text harvester (no error handling)        *)
(*                                                                         *)
(* Strings are tuples of characters.  A character up to U+00FF is the       *)
(* string of that one character; a character beyond it is the string of    *)
(* its code point, "U+0663" for the Arabic-Indic digit three.  An Optional *)
(* value is <<>> for None and <<v>> for a value v.                         *)
(***************************************************************************)
EXTENDS Integers, Sequences, FiniteSets, TLC

VARIABLES
    prog,               \* which program runs
    max_pages,          \* MAX_PAGES of the run
    cats,               \* main (range.py): filtered_cat_list
    base_url,           \* the base_url scrape_lcsc_category is called with
    catalog_id,         \* scrape_lcsc_category: catalog_id (an Optional)
    idx,                \* position in cats of the current category (1-based)
    pc,                 \* position of the control flow
    seen_keys,          \* scrape_lcsc_category: seen_keys
    all_rows,           \* scrape_lcsc_category: all_rows
    total_pages,        \* scrape_lcsc_category: total_pages (API harvest)
    pages_to_fetch,     \* scrape_lcsc_category: pages_to_fetch (API harvest)
    page,               \* scrape_lcsc_category: loop variable page
    consecutive_empty,  \* claude.py: consecutive_empty
    emitted,            \* per category written out: its index and its number of rows
    last,               \* what the latest page fetch of this scrape gave
    log,                \* history of the requests and sleeps issued so far
    replay              \* a harvest run twice: the responses the service is fixed to
                        \* give, and the records of the first run (None otherwise)

vars == <<prog, max_pages, cats, base_url, catalog_id, idx, pc, seen_keys, all_rows,
          total_pages, pages_to_fetch, page, consecutive_empty, emitted, last, log, replay>>

-----------------------------------------------------------------------------
(* Bounds of the model *)

\* largest totalPage value the API reports
MaxTotal == 3
\* largest MAX_PAGES configured
MaxCap == 4

-----------------------------------------------------------------------------
(* Characters and strings *)

None == <<>>
Some(v) == <<v>>

\* [0-9]
AsciiDigits == {"0", "1", "2", "3", "4", "5", "6", "7", "8", "9"}

\* the decimal digits of Unicode (category Nd, 66 scripts): the digits of one script
\* to a row, from its zero to its nine
DecimalDigits ==
    { <<"0", "1", "2", "3", "4", "5", "6", "7", "8", "9">>,
      <<"U+0660", "U+0661", "U+0662", "U+0663", "U+0664", "U+0665", "U+0666", "U+0667", "U+0668", "U+0669">>,
      <<"U+06F0", "U+06F1", "U+06F2", "U+06F3", "U+06F4", "U+06F5", "U+06F6", "U+06F7", "U+06F8", "U+06F9">>,
      <<"U+07C0", "U+07C1", "U+07C2", "U+07C3", "U+07C4", "U+07C5", "U+07C6", "U+07C7", "U+07C8", "U+07C9">>,
      <<"U+0966", "U+0967", "U+0968", "U+0969", "U+096A", "U+096B", "U+096C", "U+096D", "U+096E", "U+096F">>,
      <<"U+09E6", "U+09E7", "U+09E8", "U+09E9", "U+09EA", "U+09EB", "U+09EC", "U+09ED", "U+09EE", "U+09EF">>,
      <<"U+0A66", "U+0A67", "U+0A68", "U+0A69", "U+0A6A", "U+0A6B", "U+0A6C", "U+0A6D", "U+0A6E", "U+0A6F">>,
      <<"U+0AE6", "U+0AE7", "U+0AE8", "U+0AE9", "U+0AEA", "U+0AEB", "U+0AEC", "U+0AED", "U+0AEE", "U+0AEF">>,
      <<"U+0B66", "U+0B67", "U+0B68", "U+0B69", "U+0B6A", "U+0B6B", "U+0B6C", "U+0B6D", "U+0B6E", "U+0B6F">>,
      <<"U+0BE6", "U+0BE7", "U+0BE8", "U+0BE9", "U+0BEA", "U+0BEB", "U+0BEC", "U+0BED", "U+0BEE", "U+0BEF">>,
      <<"U+0C66", "U+0C67", "U+0C68", "U+0C69", "U+0C6A", "U+0C6B", "U+0C6C", "U+0C6D", "U+0C6E", "U+0C6F">>,
      <<"U+0CE6", "U+0CE7", "U+0CE8", "U+0CE9", "U+0CEA", "U+0CEB", "U+0CEC", "U+0CED", "U+0CEE", "U+0CEF">>,
      <<"U+0D66", "U+0D67", "U+0D68", "U+0D69", "U+0D6A", "U+0D6B", "U+0D6C", "U+0D6D", "U+0D6E", "U+0D6F">>,
      <<"U+0DE6", "U+0DE7", "U+0DE8", "U+0DE9", "U+0DEA", "U+0DEB", "U+0DEC", "U+0DED", "U+0DEE", "U+0DEF">>,
      <<"U+0E50", "U+0E51", "U+0E52", "U+0E53", "U+0E54", "U+0E55", "U+0E56", "U+0E57", "U+0E58", "U+0E59">>,
      <<"U+0ED0", "U+0ED1", "U+0ED2", "U+0ED3", "U+0ED4", "U+0ED5", "U+0ED6", "U+0ED7", "U+0ED8", "U+0ED9">>,
      <<"U+0F20", "U+0F21", "U+0F22", "U+0F23", "U+0F24", "U+0F25", "U+0F26", "U+0F27", "U+0F28", "U+0F29">>,
      <<"U+1040", "U+1041", "U+1042", "U+1043", "U+1044", "U+1045", "U+1046", "U+1047", "U+1048", "U+1049">>,
      <<"U+1090", "U+1091", "U+1092", "U+1093", "U+1094", "U+1095", "U+1096", "U+1097", "U+1098", "U+1099">>,
      <<"U+17E0", "U+17E1", "U+17E2", "U+17E3", "U+17E4", "U+17E5", "U+17E6", "U+17E7", "U+17E8", "U+17E9">>,
      <<"U+1810", "U+1811", "U+1812", "U+1813", "U+1814", "U+1815", "U+1816", "U+1817", "U+1818", "U+1819">>,
      <<"U+1946", "U+1947", "U+1948", "U+1949", "U+194A", "U+194B", "U+194C", "U+194D", "U+194E", "U+194F">>,
      <<"U+19D0", "U+19D1", "U+19D2", "U+19D3", "U+19D4", "U+19D5", "U+19D6", "U+19D7", "U+19D8", "U+19D9">>,
      <<"U+1A80", "U+1A81", "U+1A82", "U+1A83", "U+1A84", "U+1A85", "U+1A86", "U+1A87", "U+1A88", "U+1A89">>,
      <<"U+1A90", "U+1A91", "U+1A92", "U+1A93", "U+1A94", "U+1A95", "U+1A96", "U+1A97", "U+1A98", "U+1A99">>,
      <<"U+1B50", "U+1B51", "U+1B52", "U+1B53", "U+1B54", "U+1B55", "U+1B56", "U+1B57", "U+1B58", "U+1B59">>,
      <<"U+1BB0", "U+1BB1", "U+1BB2", "U+1BB3", "U+1BB4", "U+1BB5", "U+1BB6", "U+1BB7", "U+1BB8", "U+1BB9">>,
      <<"U+1C40", "U+1C41", "U+1C42", "U+1C43", "U+1C44", "U+1C45", "U+1C46", "U+1C47", "U+1C48", "U+1C49">>,
      <<"U+1C50", "U+1C51", "U+1C52", "U+1C53", "U+1C54", "U+1C55", "U+1C56", "U+1C57", "U+1C58", "U+1C59">>,
      <<"U+A620", "U+A621", "U+A622", "U+A623", "U+A624", "U+A625", "U+A626", "U+A627", "U+A628", "U+A629">>,
      <<"U+A8D0", "U+A8D1", "U+A8D2", "U+A8D3", "U+A8D4", "U+A8D5", "U+A8D6", "U+A8D7", "U+A8D8", "U+A8D9">>,
      <<"U+A900", "U+A901", "U+A902", "U+A903", "U+A904", "U+A905", "U+A906", "U+A907", "U+A908", "U+A909">>,
      <<"U+A9D0", "U+A9D1", "U+A9D2", "U+A9D3", "U+A9D4", "U+A9D5", "U+A9D6", "U+A9D7", "U+A9D8", "U+A9D9">>,
      <<"U+A9F0", "U+A9F1", "U+A9F2", "U+A9F3", "U+A9F4", "U+A9F5", "U+A9F6", "U+A9F7", "U+A9F8", "U+A9F9">>,
      <<"U+AA50", "U+AA51", "U+AA52", "U+AA53", "U+AA54", "U+AA55", "U+AA56", "U+AA57", "U+AA58", "U+AA59">>,
      <<"U+ABF0", "U+ABF1", "U+ABF2", "U+ABF3", "U+ABF4", "U+ABF5", "U+ABF6", "U+ABF7", "U+ABF8", "U+ABF9">>,
      <<"U+FF10", "U+FF11", "U+FF12", "U+FF13", "U+FF14", "U+FF15", "U+FF16", "U+FF17", "U+FF18", "U+FF19">>,
      <<"U+104A0", "U+104A1", "U+104A2", "U+104A3", "U+104A4", "U+104A5", "U+104A6", "U+104A7", "U+104A8", "U+104A9">>,
      <<"U+10D30", "U+10D31", "U+10D32", "U+10D33", "U+10D34", "U+10D35", "U+10D36", "U+10D37", "U+10D38", "U+10D39">>,
      <<"U+11066", "U+11067", "U+11068", "U+11069", "U+1106A", "U+1106B", "U+1106C", "U+1106D", "U+1106E", "U+1106F">>,
      <<"U+110F0", "U+110F1", "U+110F2", "U+110F3", "U+110F4", "U+110F5", "U+110F6", "U+110F7", "U+110F8", "U+110F9">>,
      <<"U+11136", "U+11137", "U+11138", "U+11139", "U+1113A", "U+1113B", "U+1113C", "U+1113D", "U+1113E", "U+1113F">>,
      <<"U+111D0", "U+111D1", "U+111D2", "U+111D3", "U+111D4", "U+111D5", "U+111D6", "U+111D7", "U+111D8", "U+111D9">>,
      <<"U+112F0", "U+112F1", "U+112F2", "U+112F3", "U+112F4", "U+112F5", "U+112F6", "U+112F7", "U+112F8", "U+112F9">>,
      <<"U+11450", "U+11451", "U+11452", "U+11453", "U+11454", "U+11455", "U+11456", "U+11457", "U+11458", "U+11459">>,
      <<"U+114D0", "U+114D1", "U+114D2", "U+114D3", "U+114D4", "U+114D5", "U+114D6", "U+114D7", "U+114D8", "U+114D9">>,
      <<"U+11650", "U+11651", "U+11652", "U+11653", "U+11654", "U+11655", "U+11656", "U+11657", "U+11658", "U+11659">>,
      <<"U+116C0", "U+116C1", "U+116C2", "U+116C3", "U+116C4", "U+116C5", "U+116C6", "U+116C7", "U+116C8", "U+116C9">>,
      <<"U+11730", "U+11731", "U+11732", "U+11733", "U+11734", "U+11735", "U+11736", "U+11737", "U+11738", "U+11739">>,
      <<"U+118E0", "U+118E1", "U+118E2", "U+118E3", "U+118E4", "U+118E5", "U+118E6", "U+118E7", "U+118E8", "U+118E9">>,
      <<"U+11950", "U+11951", "U+11952", "U+11953", "U+11954", "U+11955", "U+11956", "U+11957", "U+11958", "U+11959">>,
      <<"U+11C50", "U+11C51", "U+11C52", "U+11C53", "U+11C54", "U+11C55", "U+11C56", "U+11C57", "U+11C58", "U+11C59">>,
      <<"U+11D50", "U+11D51", "U+11D52", "U+11D53", "U+11D54", "U+11D55", "U+11D56", "U+11D57", "U+11D58", "U+11D59">>,
      <<"U+11DA0", "U+11DA1", "U+11DA2", "U+11DA3", "U+11DA4", "U+11DA5", "U+11DA6", "U+11DA7", "U+11DA8", "U+11DA9">>,
      <<"U+16A60", "U+16A61", "U+16A62", "U+16A63", "U+16A64", "U+16A65", "U+16A66", "U+16A67", "U+16A68", "U+16A69">>,
      <<"U+16AC0", "U+16AC1", "U+16AC2", "U+16AC3", "U+16AC4", "U+16AC5", "U+16AC6", "U+16AC7", "U+16AC8", "U+16AC9">>,
      <<"U+16B50", "U+16B51", "U+16B52", "U+16B53", "U+16B54", "U+16B55", "U+16B56", "U+16B57", "U+16B58", "U+16B59">>,
      <<"U+1D7CE", "U+1D7CF", "U+1D7D0", "U+1D7D1", "U+1D7D2", "U+1D7D3", "U+1D7D4", "U+1D7D5", "U+1D7D6", "U+1D7D7">>,
      <<"U+1D7D8", "U+1D7D9", "U+1D7DA", "U+1D7DB", "U+1D7DC", "U+1D7DD", "U+1D7DE", "U+1D7DF", "U+1D7E0", "U+1D7E1">>,
      <<"U+1D7E2", "U+1D7E3", "U+1D7E4", "U+1D7E5", "U+1D7E6", "U+1D7E7", "U+1D7E8", "U+1D7E9", "U+1D7EA", "U+1D7EB">>,
      <<"U+1D7EC", "U+1D7ED", "U+1D7EE", "U+1D7EF", "U+1D7F0", "U+1D7F1", "U+1D7F2", "U+1D7F3", "U+1D7F4", "U+1D7F5">>,
      <<"U+1D7F6", "U+1D7F7", "U+1D7F8", "U+1D7F9", "U+1D7FA", "U+1D7FB", "U+1D7FC", "U+1D7FD", "U+1D7FE", "U+1D7FF">>,
      <<"U+1E140", "U+1E141", "U+1E142", "U+1E143", "U+1E144", "U+1E145", "U+1E146", "U+1E147", "U+1E148", "U+1E149">>,
      <<"U+1E2F0", "U+1E2F1", "U+1E2F2", "U+1E2F3", "U+1E2F4", "U+1E2F5", "U+1E2F6", "U+1E2F7", "U+1E2F8", "U+1E2F9">>,
      <<"U+1E950", "U+1E951", "U+1E952", "U+1E953", "U+1E954", "U+1E955", "U+1E956", "U+1E957", "U+1E958", "U+1E959">>,
      <<"U+1FBF0", "U+1FBF1", "U+1FBF2", "U+1FBF3", "U+1FBF4", "U+1FBF5", "U+1FBF6", "U+1FBF7", "U+1FBF8", "U+1FBF9">> }

\* the class \d of a str pattern: a decimal digit of any script
Digits == UNION {{row[k] : k \in 1..10} : row \in DecimalDigits}
UpperCase == {"A", "B", "C", "D", "E", "F", "G", "H", "I", "J", "K", "L", "M",
              "N", "O", "P", "Q", "R", "S", "T", "U", "V", "W", "X", "Y", "Z"}
LowerCase == {"a", "b", "c", "d", "e", "f", "g", "h", "i", "j", "k", "l", "m",
              "n", "o", "p", "q", "r", "s", "t", "u", "v", "w", "x", "y", "z"}
\* the whitespace of str.strip(), str.split() and the class \s of a str pattern, the
\* characters c with c.isspace(): U+0009..U+000D, U+001C..U+001F, the space, U+0085,
\* U+00A0, and the spaces and separators beyond U+00FF
Whitespace ==
    { "\t", "\n", "", "\f", "\r", "", "", "", "", " ", "", " ", "U+1680", "U+2000",
      "U+2001", "U+2002", "U+2003", "U+2004", "U+2005", "U+2006", "U+2007", "U+2008",
      "U+2009", "U+200A", "U+2028", "U+2029", "U+202F", "U+205F", "U+3000" }

\* str.lstrip()
LStrip(s) ==
    LET keep == {k \in 1..Len(s) : s[k] \notin Whitespace}
    IN  IF keep = {} THEN <<>>
        ELSE SubSeq(s, CHOOSE m \in keep : \A n \in keep : m <= n, Len(s))

\* str.rstrip()
RStrip(s) ==
    LET keep == {k \in 1..Len(s) : s[k] \notin Whitespace}
    IN  IF keep = {} THEN <<>>
        ELSE SubSeq(s, 1, CHOOSE m \in keep : \A n \in keep : m >= n)

\* str.strip()
Strip(s) == RStrip(LStrip(s))

\* re.match(r"^C\d{4,}$", s): "$" also matches before one trailing newline
MatchesCodeRe(s) ==
    LET t == IF s # <<>> /\ s[Len(s)] = "\n" THEN SubSeq(s, 1, Len(s) - 1) ELSE s
    IN  /\ Len(t) >= 5
        /\ t[1] = "C"
        /\ \A i \in 2..Len(t) : t[i] \in Digits

\* a validate_product that forgets the code pattern
ValidateProductNoPattern(product) ==
    /\ product.mpn # <<>>
    /\ product.lcsc_code # <<>>
    /\ product.manufacturer # <<>>
    /\ Len(product.mpn) >= 2

\* a validate_product that forgets the length of the part number
ValidateProductAnyMpn(product) ==
    /\ product.mpn # <<>>
    /\ product.lcsc_code # <<>>
    /\ product.manufacturer # <<>>
    /\ MatchesCodeRe(product.lcsc_code)

\* validate_product
ValidateProduct(product) ==
    IF product.mpn = <<>> \/ product.lcsc_code = <<>> \/ product.manufacturer = <<>>
    THEN FALSE
    ELSE IF ~MatchesCodeRe(product.lcsc_code)
    THEN FALSE
    ELSE IF Len(product.mpn) < 2
    THEN FALSE
    ELSE TRUE

-----------------------------------------------------------------------------
(* clean_description *)

\* the cut-off of clean_description: len(desc) > 200, desc[:200]
DescLimit == 200

Ellipsis == <<".", ".", ".">>

Min(S) == CHOOSE m \in S : \A n \in S : m <= n
Max(S) == CHOOSE m \in S : \A n \in S : m >= n

\* the first index >= i of s whose character is not in set C (Len(s) + 1 if none)
RunEnd(s, i, C) ==
    LET stop == {k \in i..Len(s) : s[k] \notin C}
    IN  IF stop = {} THEN Len(s) + 1 ELSE Min(stop)

\* the first index <= j such that s[index .. j-1] is all whitespace
WsRunStart(s, j) ==
    LET stop == {k \in 1..(j - 1) : s[k] \notin Whitespace}
    IN  IF stop = {} THEN 1 ELSE Max(stop) + 1

\* whether the literal lit occurs in s at index i
LitAt(s, i, lit) ==
    /\ i >= 1
    /\ i + Len(lit) - 1 <= Len(s)
    /\ SubSeq(s, i, i + Len(lit) - 1) = lit

\* " ".join(desc.split()): the words of desc, one space between two words
JoinSplit(desc) ==
    LET s == Strip(desc)
        marked == [i \in 1..Len(s) |->
                      IF s[i] \notin Whitespace THEN <<s[i]>>
                      ELSE IF s[i - 1] \notin Whitespace THEN <<" ">>
                      ELSE <<>>]
        IsKept(m) == m # <<>>
        kept == SelectSeq(marked, IsKept)
    IN  [i \in 1..Len(kept) |-> kept[i][1]]

PriceChars == Digits \cup {",", "."}

\* re.sub(r'\s*' + lit + r'[\d,.]+.*$', '', s) on a text without newlines:
\* the leftmost match starts at the whitespace run before the first lit that is
\* followed by a price character, and runs to the end of the text
StripFromAmount(s, lit) ==
    LET hits == {j \in 1..Len(s) :
                    /\ LitAt(s, j, lit)
                    /\ j + Len(lit) <= Len(s)
                    /\ s[j + Len(lit)] \in PriceChars}
    IN  IF hits = {} THEN s
        ELSE SubSeq(s, 1, WsRunStart(s, Min(hits)) - 1)

\* whether r'\s+\d+\s*pcs' matches s starting at index i
PcsAt(s, i) ==
    /\ i <= Len(s)
    /\ s[i] \in Whitespace
    /\ LET d == RunEnd(s, i, Whitespace)
           e == RunEnd(s, d, Digits)
           f == RunEnd(s, e, Whitespace)
       IN  /\ e > d
           /\ LitAt(s, f, <<"p", "c", "s">>)

\* re.sub(r'\s+\d+\s*pcs.*$', '', s) on a text without newlines
StripFromPcs(s) ==
    LET hits == {i \in 1..Len(s) : PcsAt(s, i)}
    IN  IF hits = {} THEN s ELSE SubSeq(s, 1, Min(hits) - 1)

\* a clean_description that appends the marker and cuts nothing
NoCut(s) == s \o Ellipsis

\* a cut at the limit that does not look for the end of a word
CutAtLimit(s) == SubSeq(s, 1, DescLimit) \o Ellipsis

\* desc[:200].rsplit(' ', 1)[0] + "..."
Truncate(s) ==
    LET head == SubSeq(s, 1, DescLimit)
        spaces == {k \in 1..Len(head) : head[k] = " "}
    IN  (IF spaces = {} THEN head ELSE SubSeq(head, 1, Max(spaces) - 1)) \o Ellipsis

\* "if len(desc) > 200: desc = desc[:200].rsplit(' ', 1)[0] + '...'"
TruncateIfLong(s) == IF Len(s) > DescLimit THEN Truncate(s) ELSE s

\* the two price clauses that clean_description strips, one after the other
StripAmounts(s) == StripFromAmount(StripFromAmount(s, <<"$">>), <<"U", "S", "$">>)

\* clean_description: the words joined, the price clauses and the piece-count
\* clause stripped, the cut at the limit, and desc.strip() at the end
CleanDescription(desc) ==
    IF desc = <<>> THEN <<>>
    ELSE Strip(TruncateIfLong(StripFromPcs(StripAmounts(JoinSplit(desc)))))

-----------------------------------------------------------------------------
(* fetch_description_from_detail *)

sDescription == <<"D", "e", "s", "c", "r", "i", "p", "t", "i", "o", "n">>
sDatasheet == <<"D", "a", "t", "a", "s", "h", "e", "e", "t">>
sProducts == <<"P", "r", "o", "d", "u", "c", "t", "s">>
sSpecifications == <<"S", "p", "e", "c", "i", "f", "i", "c", "a", "t", "i", "o", "n", "s">>
sType == <<"T", "y", "p", "e">>

\* whether r'\s+' followed by the literal lit matches s at index q;
\* WordAfter is the index after the match (0 if there is none)
WordAfter(s, q, lit) ==
    IF q >= 1 /\ q <= Len(s) /\ s[q] \in Whitespace
       /\ LitAt(s, RunEnd(s, q, Whitespace), lit)
    THEN RunEnd(s, q, Whitespace) + Len(lit)
    ELSE 0

\* whether the terminator of the detail pattern matches s at index q:
\*   \s+Datasheet | \s+##\s+Products\s+Specifications | \s+Type\s+Description | $
DetailTerminatorAt(s, q) ==
    \/ WordAfter(s, q, sDatasheet) # 0
    \/ WordAfter(s, WordAfter(s, WordAfter(s, q, <<"#", "#">>), sProducts),
                 sSpecifications) # 0
    \/ WordAfter(s, WordAfter(s, q, sType), sDescription) # 0
    \/ q = Len(s) + 1
    \/ q = Len(s) /\ s[q] = "\n"

\* the ends q of the lazy group (.+?) when it starts at index g: the group holds
\* no newline and the terminator matches at q
DetailGroupEnds(s, g) ==
    {q \in (g + 1)..RunEnd(s, g, {c \in {s[k] : k \in g..Len(s)} : c # "\n"}) :
        DetailTerminatorAt(s, q)}

\* the indices where the group (.+?) can start when \s+ starts at index a: after
\* one or more whitespace characters, and with an end for the group
DetailGroupStarts(s, a) ==
    IF a <= Len(s) /\ s[a] \in Whitespace
    THEN {g \in (a + 1)..RunEnd(s, a, Whitespace) :
              g <= Len(s) /\ DetailGroupEnds(s, g) # {}}
    ELSE {}

\* the lazy group that starts at g ends at the first index where it can
DetailGroupFrom(s, g) == <<g, Min(DetailGroupEnds(s, g))>>

\* the greedy \s+ gives whitespace back to the group only when it has to: the
\* group starts at the latest of starts
DetailLatestStart(s, starts) ==
    IF starts = {} THEN <<>> ELSE DetailGroupFrom(s, Max(starts))

\* the match of r"Description\s+(.+?)(?:...)" that starts at index i of s, as
\* <<group start, group end + 1>>, or <<>> when the pattern does not match there
DetailMatchAt(s, i) ==
    IF LitAt(s, i, sDescription)
    THEN DetailLatestStart(s, DetailGroupStarts(s, i + Len(sDescription)))
    ELSE <<>>

\* m.group(1) of the match m = <<group start, group end + 1>>
DetailGroupOf(text, m) == Some(SubSeq(text, m[1], m[2] - 1))

\* the group of the leftmost match, hits being the indices where the pattern matches
DetailLeftmost(text, hits) ==
    IF hits = {} THEN None ELSE DetailGroupOf(text, DetailMatchAt(text, Min(hits)))

\* m = re.search(pattern, text); m.group(1), or None without a match
DetailGroup(text) ==
    DetailLeftmost(text, {i \in 1..Len(text) : DetailMatchAt(text, i) # <<>>})

\* "if m: return clean_description(m.group(1))", and "" without a match
DetailDescription(group) == IF group = None THEN <<>> ELSE CleanDescription(group[1])

\* a fetch_description_from_detail that never reads the page it is given
DetailNeverRead(lcsc_code, html) == <<>>

\* fetch_description_from_detail, given the response html of its one request
\* (None: fetch_html failed; otherwise the flattened text of the page)
FetchDescriptionFromDetail(lcsc_code, html) ==
    IF lcsc_code = <<>> THEN <<>>
    ELSE IF html = None THEN <<>>
    ELSE DetailDescription(DetailGroup(html[1]))

-----------------------------------------------------------------------------
(* MPN_LCSC_MANUF_RE and extract_products_from_text (main.py, claude.py) *)

\* the letters and the numbers of U+0080..U+00FF
Latin1Word ==
    { "ª", "²", "³", "µ", "¹", "º", "¼", "½", "¾", "À", "Á", "Â", "Ã", "Ä", "Å", "Æ", "Ç",
      "È", "É", "Ê", "Ë", "Ì", "Í", "Î", "Ï", "Ð", "Ñ", "Ò", "Ó", "Ô", "Õ", "Ö", "Ø", "Ù",
      "Ú", "Û", "Ü", "Ý", "Þ", "ß", "à", "á", "â", "ã", "ä", "å", "æ", "ç", "è", "é", "ê",
      "ë", "ì", "í", "î", "ï", "ð", "ñ", "ò", "ó", "ô", "õ", "ö", "ø", "ù", "ú", "û", "ü",
      "ý", "þ", "ÿ" }

\* the code points beyond U+00FF of the letters and the numbers of every script
\* (str.isalnum), as ranges <<first, last>>
WordRangesBeyond ==
    { <<256, 705>>, <<710, 721>>, <<736, 740>>, <<748, 748>>, <<750, 750>>, <<880, 884>>,
      <<886, 887>>, <<890, 893>>, <<895, 895>>, <<902, 902>>, <<904, 906>>, <<908, 908>>,
      <<910, 929>>, <<931, 1013>>, <<1015, 1153>>, <<1162, 1327>>, <<1329, 1366>>,
      <<1369, 1369>>, <<1376, 1416>>, <<1488, 1514>>, <<1519, 1522>>, <<1568, 1610>>,
      <<1632, 1641>>, <<1646, 1647>>, <<1649, 1747>>, <<1749, 1749>>, <<1765, 1766>>,
      <<1774, 1788>>, <<1791, 1791>>, <<1808, 1808>>, <<1810, 1839>>, <<1869, 1957>>,
      <<1969, 1969>>, <<1984, 2026>>, <<2036, 2037>>, <<2042, 2042>>, <<2048, 2069>>,
      <<2074, 2074>>, <<2084, 2084>>, <<2088, 2088>>, <<2112, 2136>>, <<2144, 2154>>,
      <<2160, 2183>>, <<2185, 2190>>, <<2208, 2249>>, <<2308, 2361>>, <<2365, 2365>>,
      <<2384, 2384>>, <<2392, 2401>>, <<2406, 2415>>, <<2417, 2432>>, <<2437, 2444>>,
      <<2447, 2448>>, <<2451, 2472>>, <<2474, 2480>>, <<2482, 2482>>, <<2486, 2489>>,
      <<2493, 2493>>, <<2510, 2510>>, <<2524, 2525>>, <<2527, 2529>>, <<2534, 2545>>,
      <<2548, 2553>>, <<2556, 2556>>, <<2565, 2570>>, <<2575, 2576>>, <<2579, 2600>>,
      <<2602, 2608>>, <<2610, 2611>>, <<2613, 2614>>, <<2616, 2617>>, <<2649, 2652>>,
      <<2654, 2654>>, <<2662, 2671>>, <<2674, 2676>>, <<2693, 2701>>, <<2703, 2705>>,
      <<2707, 2728>>, <<2730, 2736>>, <<2738, 2739>>, <<2741, 2745>>, <<2749, 2749>>,
      <<2768, 2768>>, <<2784, 2785>>, <<2790, 2799>>, <<2809, 2809>>, <<2821, 2828>>,
      <<2831, 2832>>, <<2835, 2856>>, <<2858, 2864>>, <<2866, 2867>>, <<2869, 2873>>,
      <<2877, 2877>>, <<2908, 2909>>, <<2911, 2913>>, <<2918, 2927>>, <<2929, 2935>>,
      <<2947, 2947>>, <<2949, 2954>>, <<2958, 2960>>, <<2962, 2965>>, <<2969, 2970>>,
      <<2972, 2972>>, <<2974, 2975>>, <<2979, 2980>>, <<2984, 2986>>, <<2990, 3001>>,
      <<3024, 3024>>, <<3046, 3058>>, <<3077, 3084>>, <<3086, 3088>>, <<3090, 3112>>,
      <<3114, 3129>>, <<3133, 3133>>, <<3160, 3162>>, <<3165, 3165>>, <<3168, 3169>>,
      <<3174, 3183>>, <<3192, 3198>>, <<3200, 3200>>, <<3205, 3212>>, <<3214, 3216>>,
      <<3218, 3240>>, <<3242, 3251>>, <<3253, 3257>>, <<3261, 3261>>, <<3293, 3294>>,
      <<3296, 3297>>, <<3302, 3311>>, <<3313, 3314>>, <<3332, 3340>>, <<3342, 3344>>,
      <<3346, 3386>>, <<3389, 3389>>, <<3406, 3406>>, <<3412, 3414>>, <<3416, 3425>>,
      <<3430, 3448>>, <<3450, 3455>>, <<3461, 3478>>, <<3482, 3505>>, <<3507, 3515>>,
      <<3517, 3517>>, <<3520, 3526>>, <<3558, 3567>>, <<3585, 3632>>, <<3634, 3635>>,
      <<3648, 3654>>, <<3664, 3673>>, <<3713, 3714>>, <<3716, 3716>>, <<3718, 3722>>,
      <<3724, 3747>>, <<3749, 3749>>, <<3751, 3760>>, <<3762, 3763>>, <<3773, 3773>>,
      <<3776, 3780>>, <<3782, 3782>>, <<3792, 3801>>, <<3804, 3807>>, <<3840, 3840>>,
      <<3872, 3891>>, <<3904, 3911>>, <<3913, 3948>>, <<3976, 3980>>, <<4096, 4138>>,
      <<4159, 4169>>, <<4176, 4181>>, <<4186, 4189>>, <<4193, 4193>>, <<4197, 4198>>,
      <<4206, 4208>>, <<4213, 4225>>, <<4238, 4238>>, <<4240, 4249>>, <<4256, 4293>>,
      <<4295, 4295>>, <<4301, 4301>>, <<4304, 4346>>, <<4348, 4680>>, <<4682, 4685>>,
      <<4688, 4694>>, <<4696, 4696>>, <<4698, 4701>>, <<4704, 4744>>, <<4746, 4749>>,
      <<4752, 4784>>, <<4786, 4789>>, <<4792, 4798>>, <<4800, 4800>>, <<4802, 4805>>,
      <<4808, 4822>>, <<4824, 4880>>, <<4882, 4885>>, <<4888, 4954>>, <<4969, 4988>>,
      <<4992, 5007>>, <<5024, 5109>>, <<5112, 5117>>, <<5121, 5740>>, <<5743, 5759>>,
      <<5761, 5786>>, <<5792, 5866>>, <<5870, 5880>>, <<5888, 5905>>, <<5919, 5937>>,
      <<5952, 5969>>, <<5984, 5996>>, <<5998, 6000>>, <<6016, 6067>>, <<6103, 6103>>,
      <<6108, 6108>>, <<6112, 6121>>, <<6128, 6137>>, <<6160, 6169>>, <<6176, 6264>>,
      <<6272, 6276>>, <<6279, 6312>>, <<6314, 6314>>, <<6320, 6389>>, <<6400, 6430>>,
      <<6470, 6509>>, <<6512, 6516>>, <<6528, 6571>>, <<6576, 6601>>, <<6608, 6618>>,
      <<6656, 6678>>, <<6688, 6740>>, <<6784, 6793>>, <<6800, 6809>>, <<6823, 6823>>,
      <<6917, 6963>>, <<6981, 6988>>, <<6992, 7001>>, <<7043, 7072>>, <<7086, 7141>>,
      <<7168, 7203>>, <<7232, 7241>>, <<7245, 7293>>, <<7296, 7304>>, <<7312, 7354>>,
      <<7357, 7359>>, <<7401, 7404>>, <<7406, 7411>>, <<7413, 7414>>, <<7418, 7418>>,
      <<7424, 7615>>, <<7680, 7957>>, <<7960, 7965>>, <<7968, 8005>>, <<8008, 8013>>,
      <<8016, 8023>>, <<8025, 8025>>, <<8027, 8027>>, <<8029, 8029>>, <<8031, 8061>>,
      <<8064, 8116>>, <<8118, 8124>>, <<8126, 8126>>, <<8130, 8132>>, <<8134, 8140>>,
      <<8144, 8147>>, <<8150, 8155>>, <<8160, 8172>>, <<8178, 8180>>, <<8182, 8188>>,
      <<8304, 8305>>, <<8308, 8313>>, <<8319, 8329>>, <<8336, 8348>>, <<8450, 8450>>,
      <<8455, 8455>>, <<8458, 8467>>, <<8469, 8469>>, <<8473, 8477>>, <<8484, 8484>>,
      <<8486, 8486>>, <<8488, 8488>>, <<8490, 8493>>, <<8495, 8505>>, <<8508, 8511>>,
      <<8517, 8521>>, <<8526, 8526>>, <<8528, 8585>>, <<9312, 9371>>, <<9450, 9471>>,
      <<10102, 10131>>, <<11264, 11492>>, <<11499, 11502>>, <<11506, 11507>>, <<11517, 11517>>,
      <<11520, 11557>>, <<11559, 11559>>, <<11565, 11565>>, <<11568, 11623>>, <<11631, 11631>>,
      <<11648, 11670>>, <<11680, 11686>>, <<11688, 11694>>, <<11696, 11702>>, <<11704, 11710>>,
      <<11712, 11718>>, <<11720, 11726>>, <<11728, 11734>>, <<11736, 11742>>, <<11823, 11823>>,
      <<12293, 12295>>, <<12321, 12329>>, <<12337, 12341>>, <<12344, 12348>>, <<12353, 12438>>,
      <<12445, 12447>>, <<12449, 12538>>, <<12540, 12543>>, <<12549, 12591>>, <<12593, 12686>>,
      <<12690, 12693>>, <<12704, 12735>>, <<12784, 12799>>, <<12832, 12841>>, <<12872, 12879>>,
      <<12881, 12895>>, <<12928, 12937>>, <<12977, 12991>>, <<13312, 19903>>, <<19968, 42124>>,
      <<42192, 42237>>, <<42240, 42508>>, <<42512, 42539>>, <<42560, 42606>>, <<42623, 42653>>,
      <<42656, 42735>>, <<42775, 42783>>, <<42786, 42888>>, <<42891, 42954>>, <<42960, 42961>>,
      <<42963, 42963>>, <<42965, 42969>>, <<42994, 43009>>, <<43011, 43013>>, <<43015, 43018>>,
      <<43020, 43042>>, <<43056, 43061>>, <<43072, 43123>>, <<43138, 43187>>, <<43216, 43225>>,
      <<43250, 43255>>, <<43259, 43259>>, <<43261, 43262>>, <<43264, 43301>>, <<43312, 43334>>,
      <<43360, 43388>>, <<43396, 43442>>, <<43471, 43481>>, <<43488, 43492>>, <<43494, 43518>>,
      <<43520, 43560>>, <<43584, 43586>>, <<43588, 43595>>, <<43600, 43609>>, <<43616, 43638>>,
      <<43642, 43642>>, <<43646, 43695>>, <<43697, 43697>>, <<43701, 43702>>, <<43705, 43709>>,
      <<43712, 43712>>, <<43714, 43714>>, <<43739, 43741>>, <<43744, 43754>>, <<43762, 43764>>,
      <<43777, 43782>>, <<43785, 43790>>, <<43793, 43798>>, <<43808, 43814>>, <<43816, 43822>>,
      <<43824, 43866>>, <<43868, 43881>>, <<43888, 44002>>, <<44016, 44025>>, <<44032, 55203>>,
      <<55216, 55238>>, <<55243, 55291>>, <<63744, 64109>>, <<64112, 64217>>, <<64256, 64262>>,
      <<64275, 64279>>, <<64285, 64285>>, <<64287, 64296>>, <<64298, 64310>>, <<64312, 64316>>,
      <<64318, 64318>>, <<64320, 64321>>, <<64323, 64324>>, <<64326, 64433>>, <<64467, 64829>>,
      <<64848, 64911>>, <<64914, 64967>>, <<65008, 65019>>, <<65136, 65140>>, <<65142, 65276>>,
      <<65296, 65305>>, <<65313, 65338>>, <<65345, 65370>>, <<65382, 65470>>, <<65474, 65479>>,
      <<65482, 65487>>, <<65490, 65495>>, <<65498, 65500>>, <<65536, 65547>>, <<65549, 65574>>,
      <<65576, 65594>>, <<65596, 65597>>, <<65599, 65613>>, <<65616, 65629>>, <<65664, 65786>>,
      <<65799, 65843>>, <<65856, 65912>>, <<65930, 65931>>, <<66176, 66204>>, <<66208, 66256>>,
      <<66273, 66299>>, <<66304, 66339>>, <<66349, 66378>>, <<66384, 66421>>, <<66432, 66461>>,
      <<66464, 66499>>, <<66504, 66511>>, <<66513, 66517>>, <<66560, 66717>>, <<66720, 66729>>,
      <<66736, 66771>>, <<66776, 66811>>, <<66816, 66855>>, <<66864, 66915>>, <<66928, 66938>>,
      <<66940, 66954>>, <<66956, 66962>>, <<66964, 66965>>, <<66967, 66977>>, <<66979, 66993>>,
      <<66995, 67001>>, <<67003, 67004>>, <<67072, 67382>>, <<67392, 67413>>, <<67424, 67431>>,
      <<67456, 67461>>, <<67463, 67504>>, <<67506, 67514>>, <<67584, 67589>>, <<67592, 67592>>,
      <<67594, 67637>>, <<67639, 67640>>, <<67644, 67644>>, <<67647, 67669>>, <<67672, 67702>>,
      <<67705, 67742>>, <<67751, 67759>>, <<67808, 67826>>, <<67828, 67829>>, <<67835, 67867>>,
      <<67872, 67897>>, <<67968, 68023>>, <<68028, 68047>>, <<68050, 68096>>, <<68112, 68115>>,
      <<68117, 68119>>, <<68121, 68149>>, <<68160, 68168>>, <<68192, 68222>>, <<68224, 68255>>,
      <<68288, 68295>>, <<68297, 68324>>, <<68331, 68335>>, <<68352, 68405>>, <<68416, 68437>>,
      <<68440, 68466>>, <<68472, 68497>>, <<68521, 68527>>, <<68608, 68680>>, <<68736, 68786>>,
      <<68800, 68850>>, <<68858, 68899>>, <<68912, 68921>>, <<69216, 69246>>, <<69248, 69289>>,
      <<69296, 69297>>, <<69376, 69415>>, <<69424, 69445>>, <<69457, 69460>>, <<69488, 69505>>,
      <<69552, 69579>>, <<69600, 69622>>, <<69635, 69687>>, <<69714, 69743>>, <<69745, 69746>>,
      <<69749, 69749>>, <<69763, 69807>>, <<69840, 69864>>, <<69872, 69881>>, <<69891, 69926>>,
      <<69942, 69951>>, <<69956, 69956>>, <<69959, 69959>>, <<69968, 70002>>, <<70006, 70006>>,
      <<70019, 70066>>, <<70081, 70084>>, <<70096, 70106>>, <<70108, 70108>>, <<70113, 70132>>,
      <<70144, 70161>>, <<70163, 70187>>, <<70272, 70278>>, <<70280, 70280>>, <<70282, 70285>>,
      <<70287, 70301>>, <<70303, 70312>>, <<70320, 70366>>, <<70384, 70393>>, <<70405, 70412>>,
      <<70415, 70416>>, <<70419, 70440>>, <<70442, 70448>>, <<70450, 70451>>, <<70453, 70457>>,
      <<70461, 70461>>, <<70480, 70480>>, <<70493, 70497>>, <<70656, 70708>>, <<70727, 70730>>,
      <<70736, 70745>>, <<70751, 70753>>, <<70784, 70831>>, <<70852, 70853>>, <<70855, 70855>>,
      <<70864, 70873>>, <<71040, 71086>>, <<71128, 71131>>, <<71168, 71215>>, <<71236, 71236>>,
      <<71248, 71257>>, <<71296, 71338>>, <<71352, 71352>>, <<71360, 71369>>, <<71424, 71450>>,
      <<71472, 71483>>, <<71488, 71494>>, <<71680, 71723>>, <<71840, 71922>>, <<71935, 71942>>,
      <<71945, 71945>>, <<71948, 71955>>, <<71957, 71958>>, <<71960, 71983>>, <<71999, 71999>>,
      <<72001, 72001>>, <<72016, 72025>>, <<72096, 72103>>, <<72106, 72144>>, <<72161, 72161>>,
      <<72163, 72163>>, <<72192, 72192>>, <<72203, 72242>>, <<72250, 72250>>, <<72272, 72272>>,
      <<72284, 72329>>, <<72349, 72349>>, <<72368, 72440>>, <<72704, 72712>>, <<72714, 72750>>,
      <<72768, 72768>>, <<72784, 72812>>, <<72818, 72847>>, <<72960, 72966>>, <<72968, 72969>>,
      <<72971, 73008>>, <<73030, 73030>>, <<73040, 73049>>, <<73056, 73061>>, <<73063, 73064>>,
      <<73066, 73097>>, <<73112, 73112>>, <<73120, 73129>>, <<73440, 73458>>, <<73648, 73648>>,
      <<73664, 73684>>, <<73728, 74649>>, <<74752, 74862>>, <<74880, 75075>>, <<77712, 77808>>,
      <<77824, 78894>>, <<82944, 83526>>, <<92160, 92728>>, <<92736, 92766>>, <<92768, 92777>>,
      <<92784, 92862>>, <<92864, 92873>>, <<92880, 92909>>, <<92928, 92975>>, <<92992, 92995>>,
      <<93008, 93017>>, <<93019, 93025>>, <<93027, 93047>>, <<93053, 93071>>, <<93760, 93846>>,
      <<93952, 94026>>, <<94032, 94032>>, <<94099, 94111>>, <<94176, 94177>>, <<94179, 94179>>,
      <<94208, 100343>>, <<100352, 101589>>, <<101632, 101640>>, <<110576, 110579>>,
      <<110581, 110587>>, <<110589, 110590>>, <<110592, 110882>>, <<110928, 110930>>,
      <<110948, 110951>>, <<110960, 111355>>, <<113664, 113770>>, <<113776, 113788>>,
      <<113792, 113800>>, <<113808, 113817>>, <<119520, 119539>>, <<119648, 119672>>,
      <<119808, 119892>>, <<119894, 119964>>, <<119966, 119967>>, <<119970, 119970>>,
      <<119973, 119974>>, <<119977, 119980>>, <<119982, 119993>>, <<119995, 119995>>,
      <<119997, 120003>>, <<120005, 120069>>, <<120071, 120074>>, <<120077, 120084>>,
      <<120086, 120092>>, <<120094, 120121>>, <<120123, 120126>>, <<120128, 120132>>,
      <<120134, 120134>>, <<120138, 120144>>, <<120146, 120485>>, <<120488, 120512>>,
      <<120514, 120538>>, <<120540, 120570>>, <<120572, 120596>>, <<120598, 120628>>,
      <<120630, 120654>>, <<120656, 120686>>, <<120688, 120712>>, <<120714, 120744>>,
      <<120746, 120770>>, <<120772, 120779>>, <<120782, 120831>>, <<122624, 122654>>,
      <<123136, 123180>>, <<123191, 123197>>, <<123200, 123209>>, <<123214, 123214>>,
      <<123536, 123565>>, <<123584, 123627>>, <<123632, 123641>>, <<124896, 124902>>,
      <<124904, 124907>>, <<124909, 124910>>, <<124912, 124926>>, <<124928, 125124>>,
      <<125127, 125135>>, <<125184, 125251>>, <<125259, 125259>>, <<125264, 125273>>,
      <<126065, 126123>>, <<126125, 126127>>, <<126129, 126132>>, <<126209, 126253>>,
      <<126255, 126269>>, <<126464, 126467>>, <<126469, 126495>>, <<126497, 126498>>,
      <<126500, 126500>>, <<126503, 126503>>, <<126505, 126514>>, <<126516, 126519>>,
      <<126521, 126521>>, <<126523, 126523>>, <<126530, 126530>>, <<126535, 126535>>,
      <<126537, 126537>>, <<126539, 126539>>, <<126541, 126543>>, <<126545, 126546>>,
      <<126548, 126548>>, <<126551, 126551>>, <<126553, 126553>>, <<126555, 126555>>,
      <<126557, 126557>>, <<126559, 126559>>, <<126561, 126562>>, <<126564, 126564>>,
      <<126567, 126570>>, <<126572, 126578>>, <<126580, 126583>>, <<126585, 126588>>,
      <<126590, 126590>>, <<126592, 126601>>, <<126603, 126619>>, <<126625, 126627>>,
      <<126629, 126633>>, <<126635, 126651>>, <<127232, 127244>>, <<130032, 130041>>,
      <<131072, 173791>>, <<173824, 177976>>, <<177984, 178205>>, <<178208, 183969>>,
      <<183984, 191456>>, <<194560, 195101>>, <<196608, 201546>> }

HexDigits ==
    <<"0", "1", "2", "3", "4", "5", "6", "7", "8", "9", "A", "B", "C", "D", "E", "F">>

\* the value of a hexadecimal digit
HexValue(h) == CHOOSE k \in 0..15 : HexDigits[k + 1] = h

\* the number that the hexadecimal digits h write
RECURSIVE HexNumber(_)
HexNumber(h) ==
    IF Len(h) = 0 THEN 0
    ELSE HexNumber(SubSeq(h, 1, Len(h) - 1)) * 16 + HexValue(SubSeq(h, Len(h), Len(h)))

\* the code point of a character beyond U+00FF, "U+0411" being 1041
CodePoint(c) == HexNumber(SubSeq(c, 3, Len(c)))

\* the code point n is that of a letter or a number beyond U+00FF
InWordRanges(n) == \E range \in WordRangesBeyond : range[1] <= n /\ n <= range[2]

\* the word characters up to U+00FF
WordCharsLatin1 == UpperCase \cup LowerCase \cup AsciiDigits \cup {"_"} \cup Latin1Word

\* c is of the class \w of a str pattern, which \b goes by: a letter or a number
\* of any script, or the underscore
WordChar(c) == IF Len(c) = 1 THEN c \in WordCharsLatin1 ELSE InWordRanges(CodePoint(c))
\* [A-Z0-9], [A-Z0-9\-.,/], [A-Za-z0-9/]
MpnHeadChars == UpperCase \cup AsciiDigits
MpnChars == UpperCase \cup AsciiDigits \cup {"-", ".", ",", "/"}
ManufChars == UpperCase \cup LowerCase \cup AsciiDigits \cup {"/"}
sHot == <<"H", "o", "t">>
sLightning == <<"L", "i", "g", "h", "t", "n", "i", "n", "g">>
sIn == <<"I", "n">>
sStock == <<"S", "t", "o", "c", "k">>

\* r"\b([A-Z0-9][A-Z0-9\-.,/]+)\s+(C\d{4,})\s+" matched at index i of s:
\* <<end of group 1, start of group 2, end of group 2, index after the match>>
\* (ends are exclusive), or <<>> without a match
CodePrefixAt(s, i) ==
    IF ~(/\ i <= Len(s)
         /\ s[i] \in MpnHeadChars
         /\ (i = 1 \/ ~WordChar(s[i - 1])))
    THEN <<>>
    ELSE LET e1 == RunEnd(s, i + 1, MpnChars)
             c  == RunEnd(s, e1, Whitespace)
             e2 == RunEnd(s, c + 1, Digits)
             l  == RunEnd(s, e2, Whitespace)
         IN  IF /\ e1 > i + 1
                /\ c > e1
                /\ c <= Len(s) /\ s[c] = "C"
                /\ e2 - (c + 1) >= 4
                /\ l > e2
             THEN <<e1, c, e2, l>>
             ELSE <<>>

\* the index after r"(?:Hot|Lightning)" matched at index l (0 without a label)
LabelEnd(s, l) ==
    IF LitAt(s, l, sHot) THEN l + Len(sHot)
    ELSE IF LitAt(s, l, sLightning) THEN l + Len(sLightning)
    ELSE 0

\* main.py: the match of MPN_LCSC_MANUF_RE at index i, as
\* [mpn, lcsc_code, manufacturer, end] or <<>>.  The optional label is taken
\* when a manufacturer token can follow it.
MainMatchAt(s, i) ==
    LET Record(pre, g, e3) ==
            IF e3 > g
            THEN [mpn |-> SubSeq(s, i, pre[1] - 1),
                  lcsc_code |-> SubSeq(s, pre[2], pre[3] - 1),
                  manufacturer |-> SubSeq(s, g, e3 - 1),
                  end |-> e3]
            ELSE <<>>
        Manufacturer(pre, g) == Record(pre, g, RunEnd(s, g, ManufChars))
        WithLabel(pre, lab) ==
            IF lab = 0 THEN <<>> ELSE Manufacturer(pre, RunEnd(s, lab, Whitespace))
        First(labelled, plain) == IF labelled # <<>> THEN labelled ELSE plain
        Match(pre) ==
            IF pre = <<>> THEN <<>>
            ELSE First(WithLabel(pre, LabelEnd(s, pre[4])), Manufacturer(pre, pre[4]))
    IN  Match(CodePrefixAt(s, i))

\* the index after the closing alternative r"(?:\s+\$|\s+US\$|\s+\||$)" (re.MULTILINE)
\* matched at index q, or 0 when none matches there
CloserEnd(s, q) ==
    IF WordAfter(s, q, <<"$">>) # 0 THEN WordAfter(s, q, <<"$">>)
    ELSE IF WordAfter(s, q, <<"U", "S", "$">>) # 0 THEN WordAfter(s, q, <<"U", "S", "$">>)
    ELSE IF WordAfter(s, q, <<"|">>) # 0 THEN WordAfter(s, q, <<"|">>)
    ELSE IF q = Len(s) + 1 \/ (q >= 1 /\ q <= Len(s) /\ s[q] = "\n") THEN q
    ELSE 0

\* r"([^|$\n]+?)?" followed by the closing alternative, matched at index y:
\* <<start of group 4, end of group 4, index after the match>> or <<>>
DescriptionAt(s, y) ==
    LET free == {c \in {s[k] : k \in 1..Len(s)} : c \notin {"|", "$", "\n"}}
        ends == {q \in (y + 1)..RunEnd(s, y, free) : CloserEnd(s, q) # 0}
    IN  IF ends # {} THEN <<y, Min(ends), CloserEnd(s, Min(ends))>>
        ELSE IF CloserEnd(s, y) # 0 THEN <<y, y, CloserEnd(s, y)>>
        ELSE <<>>

\* the index after r"[\d,]+\s+(?:In\s+)?Stock" matched at index t (0 without a match)
StockEnd(s, t) ==
    LET u == RunEnd(s, t, Digits \cup {","})
        v == RunEnd(s, u, Whitespace)
        w == WordAfter(s, v + Len(sIn), <<>>)
        k == IF LitAt(s, v, sIn) /\ w # 0 /\ LitAt(s, w, sStock) THEN w ELSE v
    IN  IF u > t /\ v > u /\ LitAt(s, k, sStock) THEN k + Len(sStock) ELSE 0

\* r"(?:[\d,]+\s+(?:In\s+)?Stock\s+)?([^|$\n]+?)?(?:...)" matched at index t
StockAndDescriptionAt(s, t) ==
    LET se == StockEnd(s, t)
        ys == IF se = 0 THEN {}
              ELSE {y \in (se + 1)..RunEnd(s, se, Whitespace) : DescriptionAt(s, y) # <<>>}
    IN  IF ys # {} THEN DescriptionAt(s, Max(ys)) ELSE DescriptionAt(s, t)

\* r"\s+" and the rest of the pattern matched at index p, right after group 3
TailAt(s, p) ==
    LET Longest(tails) ==
            IF tails = {} THEN <<>>
            ELSE (CHOOSE c \in tails : \A d \in tails : d[1] <= c[1])[2]
    IN  Longest({c \in {<<t, StockAndDescriptionAt(s, t)>> :
                            t \in (p + 1)..RunEnd(s, p, Whitespace)} : c[2] # <<>>})

\* claude.py: the match of MPN_LCSC_MANUF_RE at index i, as
\* [mpn, lcsc_code, manufacturer, description, end] or <<>>
ClaudeMatchAt(s, i) ==
    LET Record(pre, g, e3, tail) ==
            IF tail = <<>> THEN <<>>
            ELSE [mpn |-> SubSeq(s, i, pre[1] - 1),
                  lcsc_code |-> SubSeq(s, pre[2], pre[3] - 1),
                  manufacturer |-> SubSeq(s, g, e3 - 1),
                  description |-> SubSeq(s, tail[1], tail[2] - 1),
                  end |-> tail[3]]
        Rest(pre, g, e3) == Record(pre, g, e3, IF e3 > g THEN TailAt(s, e3) ELSE <<>>)
        Manufacturer(pre, g) == Rest(pre, g, RunEnd(s, g, ManufChars))
        WithLabel(pre, lab) ==
            IF lab = 0 THEN <<>> ELSE Manufacturer(pre, RunEnd(s, lab, Whitespace))
        First(labelled, plain) == IF labelled # <<>> THEN labelled ELSE plain
        Match(pre) ==
            IF pre = <<>> THEN <<>>
            ELSE First(WithLabel(pre, LabelEnd(s, pre[4])), Manufacturer(pre, pre[4]))
    IN  Match(CodePrefixAt(s, i))

\* findall, given the match at every index of the text (<<>> where there is none):
\* the leftmost match from pos on, then the matches after its end
RECURSIVE FindAllIn(_, _)
FindAllIn(matchAt, pos) ==
    LET hits == {i \in pos..Len(matchAt) : matchAt[i] # <<>>}
    IN  IF hits = {} THEN <<>>
        ELSE <<matchAt[Min(hits)]>> \o FindAllIn(matchAt, matchAt[Min(hits)].end)

\* MPN_LCSC_MANUF_RE.findall(page_text): the matches, left to right
MainFindAll(s) == FindAllIn([i \in 1..Len(s) |-> MainMatchAt(s, i)], 1)
ClaudeFindAll(s) == FindAllIn([i \in 1..Len(s) |-> ClaudeMatchAt(s, i)], 1)

-----------------------------------------------------------------------------
(* parse_catalog_id_from_url *)

sCategoryPath == <<"/", "c", "a", "t", "e", "g", "o", "r", "y", "/">>
sDotHtml == <<".", "h", "t", "m", "l">>

\* the value of a decimal digit: its place in the row of its script
DigitValue(c) ==
    LET row == CHOOSE r \in DecimalDigits : \E k \in 1..10 : r[k] = c
    IN  (CHOOSE k \in 1..10 : row[k] = c) - 1

\* int(digits): the digits may be of any script
RECURSIVE ToInt(_)
ToInt(digits) ==
    IF digits = <<>> THEN 0
    ELSE 10 * ToInt(SubSeq(digits, 1, Len(digits) - 1)) + DigitValue(digits[Len(digits)])

\* re.search(r"/category/(\d+)\.html", url): int(m.group(1)), or None
CategoryIdIn(url) ==
    LET hits == {i \in 1..Len(url) :
                    /\ LitAt(url, i, sCategoryPath)
                    /\ RunEnd(url, i + Len(sCategoryPath), Digits) > i + Len(sCategoryPath)
                    /\ LitAt(url, RunEnd(url, i + Len(sCategoryPath), Digits), sDotHtml)}
    IN  IF hits = {} THEN None
        ELSE LET d == Min(hits) + Len(sCategoryPath)
             IN  Some(ToInt(SubSeq(url, d, RunEnd(url, d, Digits) - 1)))

\* parse_catalog_id_from_url
ParseCatalogIdFromUrl(url) == CategoryIdIn(url)

-----------------------------------------------------------------------------
(* fetch_products_page_api: one item of result.dataList -> product *)

\* desc_api = clean_description(item.get("productIntroEn") or
\* item.get("productNameEn") or "")
DescApi(item) ==
    CleanDescription(IF item.productIntroEn # <<>> THEN item.productIntroEn
                     ELSE item.productNameEn)

\* "if not desc_api: description = detail_desc or ''; else: description = desc_api"
DescriptionOr(desc_api, detail_desc) == IF desc_api = <<>> THEN detail_desc ELSE desc_api

\* the product built from one item of result.dataList.  (item.get(k) or ""): a
\* missing or null field reads as the empty string, so every field of a raw item
\* is a string here
ProductOf(item, detail_html) ==
    [mpn |-> Strip(item.productModel),
     lcsc_code |-> Strip(item.productCode),
     manufacturer |-> Strip(item.brandNameEn),
     description |-> DescriptionOr(DescApi(item),
                                   FetchDescriptionFromDetail(Strip(item.productCode),
                                                              detail_html)),
     category |-> Strip(item.firstWmCatalogNameEn),
     subcategory |-> Strip(item.secondWmCatalogNameEn),
     childcategory |-> Strip(item.thirdWmCatalogNameEn)]

\* whether fetch_products_page_api requests the detail page for item:
\* desc_api is empty and fetch_description_from_detail gets a code
NeedsDetail(item) ==
    /\ DescApi(item) = <<>>
    /\ Strip(item.productCode) # <<>>

-----------------------------------------------------------------------------
(* The responses the catalog service may give *)

ItemFet ==
    [productModel |-> <<"A", "B", "1">>, productCode |-> <<"C", "1", "2", "3", "4">>,
     brandNameEn |-> <<"T", "I">>,
     productIntroEn |-> <<"N", "-", "C", "h", " ", "3", "0", "V", " ", "$", "0", ".", "1", "2">>,
     productNameEn |-> <<>>,
     firstWmCatalogNameEn |-> <<"T", "r">>, secondWmCatalogNameEn |-> <<"F", "E", "T">>,
     thirdWmCatalogNameEn |-> <<"M", "O", "S">>]

\* the same key as ItemFet from another brand, without any description
ItemFetDup ==
    [productModel |-> <<"A", "B", "1">>, productCode |-> <<" ", "C", "1", "2", "3", "4">>,
     brandNameEn |-> <<"O", "N">>,
     productIntroEn |-> <<>>,
     productNameEn |-> <<>>,
     firstWmCatalogNameEn |-> <<"T", "r">>, secondWmCatalogNameEn |-> <<"F", "E", "T">>,
     thirdWmCatalogNameEn |-> <<>>]

\* a part number between a no-break space (U+00A0) and a line tabulation (U+000B), a
\* code in fullwidth digits, a name with a no-break space and a count in Arabic-Indic
\* digits
ItemRes ==
    [productModel |-> <<" ", "X", "Y", "2", "">>,
     productCode |-> <<"C", "U+FF15", "U+FF16", "U+FF17", "U+FF18", "U+FF19", "\n">>,
     brandNameEn |-> <<"T", "I">>,
     productIntroEn |-> <<>>,
     productNameEn |-> <<"R", "e", "s", " ", "1", "k", " ", "U+0661", "U+0660", "U+0660", " ",
                         "p", "c", "s">>,
     firstWmCatalogNameEn |-> <<"P", "a">>, secondWmCatalogNameEn |-> <<>>,
     thirdWmCatalogNameEn |-> <<>>]

\* lacks a catalog code
ItemNoCode ==
    [productModel |-> <<"A", "B", "1">>, productCode |-> <<>>,
     brandNameEn |-> <<"T", "I">>,
     productIntroEn |-> <<>>,
     productNameEn |-> <<>>,
     firstWmCatalogNameEn |-> <<"T", "r">>, secondWmCatalogNameEn |-> <<>>,
     thirdWmCatalogNameEn |-> <<>>]

\* a code of three digits, and no description
ItemShortCode ==
    [productModel |-> <<"A", "B", "1">>, productCode |-> <<"C", "1", "2", "3">>,
     brandNameEn |-> <<"T", "I">>,
     productIntroEn |-> <<>>,
     productNameEn |-> <<>>,
     firstWmCatalogNameEn |-> <<"T", "r">>, secondWmCatalogNameEn |-> <<>>,
     thirdWmCatalogNameEn |-> <<>>]

ItemBadCode ==
    [productModel |-> <<"A", "B", "1">>, productCode |-> <<"C", "1", "2", "3", "4", "X">>,
     brandNameEn |-> <<"T", "I">>,
     productIntroEn |-> <<"x">>,
     productNameEn |-> <<>>,
     firstWmCatalogNameEn |-> <<"T", "r">>, secondWmCatalogNameEn |-> <<>>,
     thirdWmCatalogNameEn |-> <<>>]

\* a one-character part number
ItemShortMpn ==
    [productModel |-> <<"A", " ">>, productCode |-> <<"C", "1", "2", "3", "4">>,
     brandNameEn |-> <<"T", "I">>,
     productIntroEn |-> <<"x">>,
     productNameEn |-> <<>>,
     firstWmCatalogNameEn |-> <<"T", "r">>, secondWmCatalogNameEn |-> <<>>,
     thirdWmCatalogNameEn |-> <<>>]

\* a blank brand
ItemNoBrand ==
    [productModel |-> <<"A", "B", "1">>, productCode |-> <<"C", "1", "2", "3", "4">>,
     brandNameEn |-> <<" ">>,
     productIntroEn |-> <<"x">>,
     productNameEn |-> <<>>,
     firstWmCatalogNameEn |-> <<"T", "r">>, secondWmCatalogNameEn |-> <<>>,
     thirdWmCatalogNameEn |-> <<>>]

\* a text of n characters with a space after every w - 1 characters c
LongText(n, w, c) == [i \in 1..n |-> IF i % w = 0 THEN " " ELSE c]

\* the key of ItemRes, with an introduction of 205 characters in one word
ItemLong ==
    [productModel |-> <<"X", "Y", "2">>,
     productCode |-> <<"C", "U+FF15", "U+FF16", "U+FF17", "U+FF18", "U+FF19">>,
     brandNameEn |-> <<"T", "I">>,
     productIntroEn |-> LongText(205, 206, "w"),
     productNameEn |-> <<>>,
     firstWmCatalogNameEn |-> <<"P", "a">>, secondWmCatalogNameEn |-> <<>>,
     thirdWmCatalogNameEn |-> <<>>]

RawItems == {ItemFet, ItemFetDup, ItemRes, ItemNoCode, ItemShortCode, ItemBadCode,
             ItemShortMpn, ItemNoBrand, ItemLong}

\* the result.dataList values of an API response
DataLists ==
    { <<>>,
      <<ItemFet>>,
      <<ItemRes>>,
      <<ItemFet, ItemFetDup>>,
      <<ItemFetDup, ItemRes>>,
      <<ItemRes, ItemFet, ItemRes>>,
      <<ItemBadCode, ItemRes, ItemShortMpn>>,
      <<ItemNoCode, ItemShortCode, ItemNoBrand>> }

\* result.totalPage: absent, or a number
TotalPages == {None} \cup {Some(n) : n \in 0..MaxTotal}

\* how requests.post / raise_for_status / resp.json() fail
ApiFailures == {"timeout", "connection_error", "http_error", "invalid_json"}

\* how requests.get / raise_for_status fail
HtmlFailures == {"timeout", "connection_error", "http_error"}

\* the flattened text of a product detail page
DetailDual ==
    <<"T", "y", "p", "e", " ", "D", "e", "s", "c", "r", "i", "p", "t", "i", "o", "n", " ",
      "D", "u", "a", "l", " ", "N", "-", "C", "h", "a", "n", "n", "e", "l", " ", "M", "O",
      "S", "F", "E", "T", ",", " ", "3", "0", "V", " ", "D", "a", "t", "a", "s", "h", "e",
      "e", "t", " ", "A", "B", "1", ".", "p", "d", "f">>
DetailNoLabel ==
    <<"P", "a", "g", "e", " ", "n", "o", "t", " ", "f", "o", "u", "n", "d">>

\* a description of 230 characters in words of seven
DetailLong ==
    <<"D", "e", "s", "c", "r", "i", "p", "t", "i", "o", "n", " ">> \o LongText(230, 8, "d")
        \o <<" ", "D", "a", "t", "a", "s", "h", "e", "e", "t">>

\* the outcomes of fetch_html on a detail page: None, or the page
DetailResponses == {None, Some(DetailDual), Some(DetailNoLabel)}

\* the flattened text of a rendered category page (soup.get_text(separator=" "))
TextTwo ==
    <<"B", "S", "S", "1", "3", "8", " ", "C", "4", "0", "9", "1", "2", " ", "H", "o", "t",
      " ", "D", "I", "O", "D", "E", "S", " ", "1", "1", "9", ",", "0", "2", "0", " ", "I",
      "n", " ", "S", "t", "o", "c", "k", " ", "N", "-", "C", "h", "a", "n", "n", "e", "l",
      " ", "5", "0", "V", " ", "$", "0", ".", "0", "1", " ", "|", " ", "X", "Y", "2", " ",
      "C", "5", "6", "7", "8", "9", " ", "T", "I", " ", "R", "e", "s", " ", "1", "k">>
\* a page that repeats a product of TextTwo
TextRepeat ==
    <<"O", "t", "h", "e", "r", " ", "S", "u", "p", "p", "l", "i", "e", "r", "s", " ", "X",
      "Y", "2", " ", "C", "5", "6", "7", "8", "9", " ", "L", "i", "g", "h", "t", "n", "i",
      "n", "g", " ", "O", "N", " ", "5", " ", "p", "c", "s">>
\* one product twice, its code in Arabic-Indic digits, a no-break space before it
TextOne ==
    <<"Q", "7", " ", "C", "U+0660", "U+0660", "U+0660", "U+0660", "U+0661", " ", "S", "T",
      "\n", "Q", "7", " ", "C", "U+0660", "U+0660", "U+0660", "U+0660", "U+0661", " ", "S",
      "T", " ", "a", "g", "a", "i", "n">>
\* no product: a code too short, and part numbers that start inside a word (after
\* E acute, after the Cyrillic letter Be)
TextNoProduct ==
    <<"N", "o", " ", "r", "e", "s", "u", "l", "t", "s", " ", "C", "1", "2", " ", "f", "o",
      "u", "n", "d", " ", "É", "A", "B", " ", "C", "1", "2", "3", "4", " ", "T", "I", " ",
      "U+0411", "A", "B", " ", "C", "1", "2", "3", "4", " ", "T", "I">>

\* the product of TextOne, followed by 210 characters in words of 59, and a product
\* that has nothing after its manufacturer
TextLong ==
    <<"Q", "7", " ", "C", "U+0660", "U+0660", "U+0660", "U+0660", "U+0661", " ", "S", "T", " ">>
        \o LongText(210, 60, "t")
        \o <<" ", "|", " ", "Q", "8", " ", "C", "0", "0", "0", "0", "2", " ", "S", "T", " ">>

TextPages == {TextTwo, TextRepeat, TextOne, TextNoProduct, TextLong}

-----------------------------------------------------------------------------
(* extract_products_from_text *)

\* claude.py: the product built from each match of a page text
ClaudeCandidates(page_text) ==
    LET Products(matches) ==
            [i \in 1..Len(matches) |->
                [mpn |-> Strip(matches[i].mpn),
                 lcsc_code |-> Strip(matches[i].lcsc_code),
                 manufacturer |-> Strip(matches[i].manufacturer),
                 description |-> CleanDescription(matches[i].description)]]
    IN  Products(ClaudeFindAll(page_text))

\* claude.py: the validated products of a page text
ClaudeExtract(page_text) == SelectSeq(ClaudeCandidates(page_text), ValidateProduct)

\* main.py: every match of a page text, unvalidated
MainExtract(page_text) ==
    LET Products(matches) ==
            [i \in 1..Len(matches) |->
                [mpn |-> matches[i].mpn,
                 lcsc_code |-> matches[i].lcsc_code,
                 manufacturer |-> matches[i].manufacturer]]
    IN  Products(MainFindAll(page_text))

\* the two, tabulated over the page texts
ClaudeCandidatesInText == [t \in TextPages |-> ClaudeCandidates(t)]
ClaudeExtractProductsFromText ==
    [t \in TextPages |-> SelectSeq(ClaudeCandidatesInText[t], ValidateProduct)]
MainExtractProductsFromText == [t \in TextPages |-> MainExtract(t)]

-----------------------------------------------------------------------------
(* get_all_category_urls and the id range filter of main (range.py) *)

\* CATEGORY_ID_START, CATEGORY_ID_END
CATEGORY_ID_START == 1
CATEGORY_ID_END == 50

sViewAll == <<"V", "i", "e", "w", " ", "A", "l", "l">>
sHttp == <<"h", "t", "t", "p">>
sSite == <<"h", "t", "t", "p", "s", ":", "/", "/", "w", "w", "w", ".", "l", "c", "s", "c", ".",
      "c", "o", "m">>

\* lit in s
Contains(s, lit) == \E i \in 1..Len(s) : LitAt(s, i, lit)

\* a test that takes every id for a new one
NeverListed(categories, cat_id) == FALSE

\* "cat_id in categories": the dict has an entry for the id
AlreadyListed(categories, cat_id) ==
    \E j \in 1..Len(categories) : categories[j].cat_id = cat_id

\* the loop body of get_all_category_urls over the anchors from index k on;
\* categories is the dict so far, as the sequence of its values in insertion order
RECURSIVE CollectCategories(_, _, _)
CollectCategories(anchors, k, categories) ==
    IF k > Len(anchors) THEN categories
    ELSE LET href == anchors[k].href
             m == CategoryIdIn(href)
             name == Strip(anchors[k].text)
             full_url == IF LitAt(href, 1, sHttp) THEN href ELSE sSite \o href
         IN  IF m = None THEN CollectCategories(anchors, k + 1, categories)
             ELSE IF name = <<>> THEN CollectCategories(anchors, k + 1, categories)
             ELSE IF Contains(name, sViewAll)
                  THEN CollectCategories(anchors, k + 1, categories)
             ELSE IF AlreadyListed(categories, m[1])
                  THEN CollectCategories(anchors, k + 1, categories)
             ELSE CollectCategories(anchors, k + 1,
                      Append(categories, [cat_id |-> m[1], url |-> full_url, name |-> name]))

\* get_all_category_urls, given the outcome of fetch_html(CATEGORY_INDEX_URL):
\* None, or the a[href] anchors of the page in document order
GetAllCategoryUrls(html) ==
    IF html = None THEN <<>>
    ELSE IF Len(html[1]) = 0 THEN <<>>
    ELSE CollectCategories(html[1], 1, <<>>)

\* a range test that forgets the upper end
InRangeNoUpperEnd(cat_id, lo, hi) == lo <= cat_id

\* "lo <= cat_id <= hi", the test of the id range filter
InRange(cat_id, lo, hi) == lo <= cat_id /\ cat_id <= hi

\* the list comprehension of the filter, for the range lo..hi
FilterByRange(cat_list, lo, hi) ==
    LET Keep(c) == InRange(c.cat_id, lo, hi)
    IN  SelectSeq(cat_list, Keep)

\* a test of the id range that leaves out the two ends
StrictlyInside(cat_id, lo, hi) == cat_id <= lo \/ cat_id >= hi

\* "cat_id < CAT_ID_START or cat_id > CAT_ID_END" (rangeWithSpecs.py)
OutOfRange(cat_id, lo, hi) == cat_id < lo \/ cat_id > hi

\* the loop body of get_all_category_urls of rangeWithSpecs.py, for the range lo..hi:
\* the id is tested before the name is looked at
RECURSIVE CollectCategoriesInRange(_, _, _, _, _)
CollectCategoriesInRange(anchors, k, categories, lo, hi) ==
    IF k > Len(anchors) THEN categories
    ELSE LET href == anchors[k].href
             m == CategoryIdIn(href)
             name == Strip(anchors[k].text)
             full_url == IF LitAt(href, 1, sHttp) THEN href ELSE sSite \o href
             Skip == CollectCategoriesInRange(anchors, k + 1, categories, lo, hi)
         IN  IF m = None THEN Skip
             ELSE IF OutOfRange(m[1], lo, hi) THEN Skip
             ELSE IF name = <<>> THEN Skip
             ELSE IF Contains(name, sViewAll) THEN Skip
             ELSE IF AlreadyListed(categories, m[1]) THEN Skip
             ELSE CollectCategoriesInRange(anchors, k + 1,
                      Append(categories, [cat_id |-> m[1], url |-> full_url, name |-> name]),
                      lo, hi)

\* get_all_category_urls of rangeWithSpecs.py
GetAllCategoryUrlsInRange(html, lo, hi) ==
    IF html = None THEN <<>>
    ELSE IF Len(html[1]) = 0 THEN <<>>
    ELSE CollectCategoriesInRange(html[1], 1, <<>>, lo, hi)

\* main: filtered_cat_list
InIdRange(c) == InRange(c.cat_id, CATEGORY_ID_START, CATEGORY_ID_END)
FilteredCatList(cat_list) == FilterByRange(cat_list, CATEGORY_ID_START, CATEGORY_ID_END)

IndexTwo ==
    <<[href |-> <<"/", "c", "a", "t", "e", "g", "o", "r", "y", "/", "1", "1", ".", "h",
                  "t", "m", "l">>,
       text |-> <<"F", "E", "T", "s">>],
      [href |-> <<"/", "c", "a", "t", "e", "g", "o", "r", "y", "/", "1", "1", ".", "h",
                  "t", "m", "l">>,
       text |-> <<"V", "i", "e", "w", " ", "A", "l", "l">>],
      [href |-> <<"h", "t", "t", "p", "s", ":", "/", "/", "w", "w", "w", ".", "l", "c",
                  "s", "c", ".", "c", "o", "m", "/", "c", "a", "t", "e", "g", "o", "r",
                  "y", "/", "1", "2", ".", "h", "t", "m", "l">>,
       text |-> <<" ", "R", "e", "s", "i", "s", "t", "o", "r", "s", " ">>],
      [href |-> <<"/", "c", "a", "t", "e", "g", "o", "r", "y", "/", "5", "1", ".", "h",
                  "t", "m", "l">>,
       text |-> <<"R", "e", "l", "a", "y", "s">>],
      [href |-> <<"/", "b", "r", "a", "n", "d", "/", "3", ".", "h", "t", "m", "l">>,
       text |-> <<"T", "I">>],
      [href |-> <<"/", "c", "a", "t", "e", "g", "o", "r", "y", "/", "U+0660", "U+0661", "U+0661",
                  ".", "h", "t", "m", "l">>,
       text |-> <<"M", "O", "S", "F", "E", "T", "s">>],
      [href |-> <<"/", "c", "a", "t", "e", "g", "o", "r", "y", "/", "1", "2", ".", "h",
                  "t", "m", "l">>,
       text |-> <<>>]>>

IndexOne ==
    <<[href |-> <<"/", "c", "a", "t", "e", "g", "o", "r", "y", "/", "7", ".", "h", "t",
                  "m", "l">>,
       text |-> <<"V", "i", "e", "w", " ", "A", "l", "l", " ", "C", "a", "p", "s">>],
      [href |-> <<"/", "c", "a", "t", "e", "g", "o", "r", "y", "/", "7", ".", "h", "t",
                  "m", "l">>,
       text |-> <<"C", "a", "p", "s">>]>>

IndexOutOfRange ==
    <<[href |-> <<"/", "c", "a", "t", "e", "g", "o", "r", "y", "/", "8", "7", "4", ".",
                  "h", "t", "m", "l">>,
       text |-> <<"S", "i", "n", "g", "l", "e", " ", "F", "E", "T", "s">>]>>

\* the outcomes of fetch_html(CATEGORY_INDEX_URL)
IndexResponses == {None, Some(<<>>), Some(IndexTwo), Some(IndexOne), Some(IndexOutOfRange)}

\* get_all_category_urls, tabulated over these outcomes
DiscoveredCategories == [html \in IndexResponses |-> GetAllCategoryUrls(html)]

\* ends of id ranges around the ids of the index pages (7, 11, 12, 51, 874)
IdRangeEnds == {0, 7, 11, 12, 50, 51, 874, 900}

\* BASE_URL of the one-category programs
BaseUrlCategory ==
    <<"h", "t", "t", "p", "s", ":", "/", "/", "w", "w", "w", ".", "l", "c", "s", "c", ".",
      "c", "o", "m", "/", "c", "a", "t", "e", "g", "o", "r", "y", "/", "8", "7", "4", ".",
      "h", "t", "m", "l">>
BaseUrlNoId ==
    <<"h", "t", "t", "p", "s", ":", "/", "/", "w", "w", "w", ".", "l", "c", "s", "c", ".",
      "c", "o", "m", "/", "p", "r", "o", "d", "u", "c", "t", "s">>
BaseUrls == {BaseUrlCategory, BaseUrlNoId}

\* the URLs scrape_lcsc_category is called with: BASE_URL, or a discovered one
CategoryUrls ==
    BaseUrls \cup UNION {{GetAllCategoryUrls(html)[i].url :
                              i \in 1..Len(GetAllCategoryUrls(html))} :
                         html \in IndexResponses}

\* parse_catalog_id_from_url, tabulated over these URLs
CatalogIdOf == [url \in CategoryUrls |-> ParseCatalogIdFromUrl(url)]

-----------------------------------------------------------------------------
(* fetch_products_page_api *)

\* the responses of the product-list API: a failure of the request or of the JSON
\* decoding (no body: result "none"), a body whose result is an object with
\* totalPage and dataList (a missing result reads as an empty object), or a body
\* whose result is null
ApiResponses ==
    [status : ApiFailures, result : {"none"}, totalPage : {None}, dataList : {<<>>}]
    \cup [status : {"ok"}, result : {"object"}, totalPage : TotalPages, dataList : DataLists]
    \cup {[status |-> "ok", result |-> "null", totalPage |-> None, dataList |-> <<>>]}

\* ProductOf and NeedsDetail, tabulated over the items and the detail pages
ItemProduct == [item \in RawItems |-> [d \in DetailResponses |-> ProductOf(item, d)]]
ItemNeedsDetail == [item \in RawItems |-> NeedsDetail(item)]

\* the positions of dataList whose item makes fetch_products_page_api request the
\* product detail page
DetailNeeds(dataList) == {i \in 1..Len(dataList) : ItemNeedsDetail[dataList[i]]}

\* "if not desc_api", read from the table
ItemNeeds(item) == ItemNeedsDetail[item]

\* lcsc_code of each of items
CodesOf(items) == [k \in 1..Len(items) |-> Strip(items[k].productCode)]

\* the codes fetch_products_page_api passes to fetch_description_from_detail and
\* that make it request a detail page, in the order of the requests
DetailRequests ==
    [dataList \in DataLists |-> CodesOf(SelectSeq(dataList, ItemNeeds))]

\* a fetch_products_page_api that gives up the page when a detail request fails
FetchPageHardFailure(resp, details) ==
    IF resp.status # "ok" \/ \E i \in DOMAIN details : details[i] = None
    THEN [products |-> <<>>, total_pages |-> None]
    ELSE [products |-> SelectSeq([i \in 1..Len(resp.dataList) |->
                                     ItemProduct[resp.dataList[i]]
                                                [IF i \in DOMAIN details THEN details[i]
                                                 ELSE None]],
                                 ValidateProduct),
          total_pages |-> resp.totalPage]

\* fetch_products_page_api: (products, total_pages).  details[i] is the outcome of
\* the detail request made for dataList[i].  A null result reads as an empty object
\* (data.get("result", {}) or {}): no totalPage, no item
FetchProductsPageApi(resp, details) ==
    IF resp.status # "ok" THEN [products |-> <<>>, total_pages |-> None]
    ELSE LET candidates == [i \in 1..Len(resp.dataList) |->
                               ItemProduct[resp.dataList[i]]
                                          [IF i \in DOMAIN details THEN details[i] ELSE None]]
         IN  [products |-> SelectSeq(candidates, ValidateProduct),
              total_pages |-> resp.totalPage]

\* chatgpt_v2.py fetch_products_page_api: the same request and the same loop over
\* the items of the body; it returns the products alone and never reads
\* result.totalPage.  Its data.get("result", {}) has no "or {}": on a body whose
\* result is null, result.get raises AttributeError, which nothing catches
ChatgptFetchProductsPageApi(resp, details) ==
    [raised |-> resp.status = "ok" /\ resp.result = "null",
     products |-> FetchProductsPageApi(resp, details).products]

-----------------------------------------------------------------------------
(* scrape_lcsc_category: the loop over the products of one page *)

\* a loop that never looks at seen_keys
RECURSIVE KeepAll(_, _, _, _)
KeepAll(products, pg, seen, rows) ==
    IF products = <<>> THEN [seen_keys |-> seen, all_rows |-> rows, new_count |-> 0]
    ELSE LET p == Head(products)
             rest == KeepAll(Tail(products), pg, seen \cup {<<p.mpn, p.lcsc_code>>},
                             Append(rows, p @@ [page |-> pg]))
         IN  [rest EXCEPT !.new_count = @ + 1]

\* a loop where the latest record of a key replaces the one collected before
RECURSIVE LastWins(_, _, _, _)
LastWins(products, pg, seen, rows) ==
    IF products = <<>> THEN [seen_keys |-> seen, all_rows |-> rows, new_count |-> 0]
    ELSE LET p == Head(products)
             key == <<p.mpn, p.lcsc_code>>
         IN  IF key \in seen
             THEN LastWins(Tail(products), pg, seen,
                           [i \in 1..Len(rows) |->
                               IF <<rows[i].mpn, rows[i].lcsc_code>> = key
                               THEN p @@ [page |-> pg] ELSE rows[i]])
             ELSE LET rest == LastWins(Tail(products), pg, seen \cup {key},
                                       Append(rows, p @@ [page |-> pg]))
                  IN  [rest EXCEPT !.new_count = @ + 1]

\* a loop that appends the record of an unseen key and forgets to note the key
RECURSIVE ForgetKey(_, _, _, _)
ForgetKey(products, pg, seen, rows) ==
    IF products = <<>> THEN [seen_keys |-> seen, all_rows |-> rows, new_count |-> 0]
    ELSE LET p == Head(products)
         IN  IF <<p.mpn, p.lcsc_code>> \in seen
             THEN ForgetKey(Tail(products), pg, seen, rows)
             ELSE LET rest == ForgetKey(Tail(products), pg, seen,
                                        Append(rows, p @@ [page |-> pg]))
                  IN  [rest EXCEPT !.new_count = @ + 1]

\* for p in products: skip a seen key, else add the key, set p["page"], append p
RECURSIVE AddNew(_, _, _, _)
AddNew(products, pg, seen, rows) ==
    IF products = <<>> THEN [seen_keys |-> seen, all_rows |-> rows, new_count |-> 0]
    ELSE LET p == Head(products)
             key == <<p.mpn, p.lcsc_code>>
         IN  IF key \in seen
             THEN AddNew(Tail(products), pg, seen, rows)
             ELSE LET rest == AddNew(Tail(products), pg, seen \cup {key},
                                     Append(rows, p @@ [page |-> pg]))
                  IN  [rest EXCEPT !.new_count = @ + 1]

-----------------------------------------------------------------------------
(* The run *)

\* the programs: range.py, single.py (JSON API, as many pages as page 1 reports);
\* chatgpt_v2.py (JSON API, as many pages as MAX_PAGES allows); claude.py, main.py
\* (page text)
ApiPrograms == {"range", "single"}
BudgetPrograms == {"chatgpt_v2"}
TextPrograms == {"claude", "main"}
Programs == ApiPrograms \cup BudgetPrograms \cup TextPrograms

\* the MAX_PAGES values of a run: negative, zero, or a positive cap
CapChoices == -1..MaxCap

\* one entry of the history of requests and sleeps
PageRequest(n) == [kind |-> "page", cat |-> idx, page |-> n]
IndexRequest == [kind |-> "index", cat |-> 0, page |-> 0]
SleepEntry == [kind |-> "sleep", cat |-> idx, page |-> page]

\* what main does with its output: "open" when pd.ExcelWriter is entered, and the
\* way the run ends: "abort" (no category to harvest), "no_data" (the "No data
\* scraped" return), "saved" (the file is written), "write_error" (the handler
\* of an exception raised while the file is written)
OutputEntry(kind) == [kind |-> kind, cat |-> 0, page |-> 0]

\* range.py main, leaving "with pd.ExcelWriter(...)": the writer saves the
\* workbook; a workbook no sheet was written to cannot be saved (openpyxl: "At
\* least one sheet must be visible"), and "except Exception" reports the failure
WriterClose(sheets) == IF sheets = <<>> THEN "write_error" ELSE "saved"

\* single.py, chatgpt_v2.py, claude.py, main.py main: "if df.empty: print(...);
\* return", else save
SaveOrReport(rows) == IF rows = <<>> THEN "no_data" ELSE "saved"

\* what a page fetch gave: whether the request and the decoding succeeded (ok), and
\* whether those of the fetch before it did (prev_ok); the result.totalPage of the
\* body of page 1 (total), whether the body of a later page carried another value
\* than total_pages (other_total), the number of products, and new_count
\* raw holds the items of the body (the regex matches of a page text), requested the
\* codes of the detail pages asked for, validated the products the fetch returned
Fetched(total, raw, requested, products, new_count) ==
    [ok |-> TRUE, prev_ok |-> last.ok,
     total |-> IF pc = "next_page" THEN None ELSE total,
     other_total |-> pc = "next_page" /\ total # Some(total_pages), raw |-> raw,
     requested |-> requested, validated |-> products, products |-> Len(products),
     new_count |-> new_count]
FetchFailed ==
    [ok |-> FALSE, prev_ok |-> last.ok, total |-> None, other_total |-> FALSE,
     raw |-> <<>>, requested |-> <<>>,
     validated |-> <<>>, products |-> 0, new_count |-> 0]
NothingFetched ==
    [ok |-> TRUE, prev_ok |-> TRUE, total |-> None, other_total |-> FALSE,
     raw |-> <<>>, requested |-> <<>>,
     validated |-> <<>>, products |-> 0, new_count |-> 0]

Init ==
    /\ prog \in Programs
    /\ max_pages \in CapChoices
    /\ cats = <<>>
    /\ base_url \in (IF prog = "range" THEN {<<>>}
                     ELSE IF prog \in {"single", "chatgpt_v2"} THEN BaseUrls
                     ELSE {BaseUrlCategory})
    /\ catalog_id = None
    /\ idx = IF prog = "range" THEN 0 ELSE 1
    /\ pc = IF prog = "range" THEN "main" ELSE "scrape"
    /\ seen_keys = {}
    /\ all_rows = <<>>
    /\ total_pages = 0
    /\ pages_to_fetch = 0
    /\ page = 0
    /\ consecutive_empty = 0
    /\ emitted = <<>>
    /\ last = NothingFetched
    /\ log = <<>>
    /\ replay = None

\* range.py main, when fetch_html answers the request for the index page with html:
\* discover the categories, filter them by id, start the loop
DiscoverGiven(html) ==
    /\ pc = "main"
    /\ prog = "range"
    /\ LET Rest(cat_list, filtered_cat_list) ==
                /\ IF cat_list = <<>> \/ filtered_cat_list = <<>>
                   THEN /\ pc' = "done"
                        /\ log' = log \o <<IndexRequest, OutputEntry("abort")>>
                        /\ UNCHANGED <<cats, idx, base_url>>
                   ELSE /\ cats' = filtered_cat_list
                        /\ log' = log \o <<IndexRequest, OutputEntry("open")>>
                        /\ idx' = 1
                        /\ base_url' = filtered_cat_list[1].url
                        /\ pc' = "scrape"
            Filter(cat_list) == Rest(cat_list, FilteredCatList(cat_list))
       IN  Filter(GetAllCategoryUrls(html))
    /\ UNCHANGED <<replay, prog, max_pages, catalog_id, seen_keys, all_rows, total_pages,
                   pages_to_fetch, page, consecutive_empty, emitted, last>>

\* range.py main: discover the categories, filter them by id, start the loop
Discover == \E html \in IndexResponses : DiscoverGiven(html)

\* a set of seen keys that outlives the category
SameSeenKeys(left) == left

\* "seen_keys = set()": what a category starts with, whatever the one before left
FreshSeenKeys(left) == {}

\* scrape_lcsc_category (range.py, single.py) up to the first request
ScrapeBegin ==
    /\ pc = "scrape"
    /\ prog \in ApiPrograms
    /\ catalog_id' = CatalogIdOf[base_url]
    /\ seen_keys' = FreshSeenKeys(seen_keys)
    /\ all_rows' = <<>>
    /\ pc' = IF CatalogIdOf[base_url] = None THEN "returned" ELSE "page1"
    /\ total_pages' = 0
    /\ pages_to_fetch' = 0
    /\ page' = 0
    /\ last' = NothingFetched
    /\ UNCHANGED <<replay, prog, max_pages, cats, base_url, idx, consecutive_empty, emitted, log>>

\* pages_to_fetch = max_pages whatever total_pages is
PagesCapOnly(total, cap) == cap

\* pages_to_fetch, from total_pages and max_pages
PagesToFetch(total, cap) ==
    IF cap # 0 /\ cap > 0
    THEN IF total <= cap THEN total ELSE cap
    ELSE total

\* a test that never ends a loop
Never(x) == FALSE

\* "if not products": the page has no validated product
NoProducts(products) == products = <<>>

\* "if new_count == 0": the page has no product that is new to this scrape
NoNew(new_count) == new_count = 0

\* a loop that asks for the same page again
SamePage(n) == n

\* the loop variable of the next pass of "for page in range(...)"
NextPage(n) == n + 1

\* scrape_lcsc_category (range.py, single.py): the first page, when the service
\* answers the page request with resp and the detail requests with details
FirstPageGiven(resp, details) ==
    /\ pc = "page1"
    /\ LET  Rest(products, reported, total, to_fetch, added) ==
                 /\ log' = Append(log, PageRequest(1))
                 /\ last' = IF resp.status = "ok"
                            THEN Fetched(reported, resp.dataList, DetailRequests[resp.dataList],
                                         products, added.new_count)
                            ELSE FetchFailed
                 /\ IF NoProducts(products)
                    THEN /\ pc' = "returned"
                         /\ UNCHANGED <<seen_keys, all_rows, total_pages, pages_to_fetch,
                                        page>>
                    ELSE /\ total_pages' = total
                         /\ pages_to_fetch' = to_fetch
                         /\ seen_keys' = added.seen_keys
                         /\ all_rows' = added.all_rows
                         /\ IF 2 <= to_fetch
                            THEN page' = 2 /\ pc' = "next_page"
                            ELSE page' = 1 /\ pc' = "returned"
             Plan(products, reported, total) ==
                 Rest(products, reported, total, PagesToFetch(total, max_pages),
                      AddNew(products, 1, seen_keys, all_rows))
             Page1(got) ==
                 Plan(got.products, got.total_pages,
                      IF got.total_pages = None THEN 1 ELSE got.total_pages[1])
         IN  Page1(FetchProductsPageApi(resp, details))
    /\ UNCHANGED <<replay, prog, max_pages, cats, base_url, catalog_id, idx, consecutive_empty,
                   emitted>>

\* scrape_lcsc_category (range.py, single.py): the first page
FetchFirstPage ==
    \E resp \in ApiResponses :
        \E details \in [DetailNeeds(resp.dataList) -> DetailResponses] :
            FirstPageGiven(resp, details)

\* scrape_lcsc_category (range.py, single.py): one pass of the loop over
\* 2..pages_to_fetch, when the service answers with resp and details
NextPageGiven(resp, details) ==
    /\ pc = "next_page"
    /\ LET  Rest(products, reported, added) ==
                 /\ log' = Append(log, PageRequest(page))
                 /\ last' = IF resp.status = "ok"
                            THEN Fetched(reported, resp.dataList, DetailRequests[resp.dataList],
                                         products, added.new_count)
                            ELSE FetchFailed
                 /\ IF NoProducts(products)
                    THEN /\ pc' = "returned"
                         /\ UNCHANGED <<seen_keys, all_rows>>
                    ELSE /\ seen_keys' = added.seen_keys
                         /\ all_rows' = added.all_rows
                         /\ pc' = IF page < pages_to_fetch THEN "sleep" ELSE "returned"
             PageN(got) ==
                 Rest(got.products, got.total_pages,
                      AddNew(got.products, page, seen_keys, all_rows))
         IN  PageN(FetchProductsPageApi(resp, details))
    /\ UNCHANGED <<replay, prog, max_pages, cats, base_url, catalog_id, idx, total_pages,
                   pages_to_fetch, page, consecutive_empty, emitted>>

\* scrape_lcsc_category (range.py, single.py): one pass of the loop over 2..pages_to_fetch
FetchNextPage ==
    \E resp \in ApiResponses :
        \E details \in [DetailNeeds(resp.dataList) -> DetailResponses] :
            NextPageGiven(resp, details)

\* chatgpt_v2.py scrape_lcsc_category up to the first pass of
\* "for page in range(1, max_pages + 1)": no pass at all without a positive max_pages
ChatgptScrapeBegin ==
    /\ pc = "scrape"
    /\ prog \in BudgetPrograms
    /\ catalog_id' = CatalogIdOf[base_url]
    /\ seen_keys' = FreshSeenKeys(seen_keys)
    /\ all_rows' = <<>>
    /\ last' = NothingFetched
    /\ IF catalog_id' # None /\ 1 <= max_pages
       THEN page' = 1 /\ pc' = "api_page"
       ELSE page' = 0 /\ pc' = "returned"
    /\ UNCHANGED <<replay, prog, max_pages, cats, base_url, idx, total_pages, pages_to_fetch,
                   consecutive_empty, emitted, log>>

\* chatgpt_v2.py scrape_lcsc_category: one pass of the loop over 1..max_pages, when
\* the service answers the page request with resp and the detail requests with
\* details.  The totalPage of the body is noted for page 1 and read by nothing.  An
\* exception of fetch_products_page_api leaves the function, and main, at once.
ChatgptPageGiven(resp, details) ==
    /\ pc = "api_page"
    /\ LET  Rest(raised, products, added) ==
                 /\ log' = Append(log, PageRequest(page))
                 /\ last' = IF resp.status = "ok"
                            THEN Fetched(IF page = 1 THEN resp.totalPage ELSE None,
                                         resp.dataList, DetailRequests[resp.dataList],
                                         products, added.new_count)
                            ELSE FetchFailed
                 /\ IF raised
                    THEN /\ pc' = "crashed"
                         /\ UNCHANGED <<seen_keys, all_rows>>
                    ELSE IF NoProducts(products)
                    THEN /\ pc' = "returned"
                         /\ UNCHANGED <<seen_keys, all_rows>>
                    ELSE /\ seen_keys' = added.seen_keys
                         /\ all_rows' = added.all_rows
                         /\ pc' = IF page < max_pages THEN "sleep" ELSE "returned"
             Pass(got) ==
                 Rest(got.raised, got.products,
                      AddNew(got.products, page, seen_keys, all_rows))
         IN  Pass(ChatgptFetchProductsPageApi(resp, details))
    /\ UNCHANGED <<replay, prog, max_pages, cats, base_url, catalog_id, idx, total_pages,
                   pages_to_fetch, page, consecutive_empty, emitted>>

\* chatgpt_v2.py scrape_lcsc_category: one pass of the loop over 1..max_pages
ChatgptFetchPage ==
    \E resp \in ApiResponses :
        \E details \in [DetailNeeds(resp.dataList) -> DetailResponses] :
            ChatgptPageGiven(resp, details)

\* time.sleep(DELAY), then the next pass of the loop, if the loop has one
Sleep ==
    /\ pc = "sleep"
    /\ log' = Append(log, SleepEntry)
    /\ IF page < (IF prog \in ApiPrograms THEN pages_to_fetch ELSE max_pages)
       THEN /\ page' = NextPage(page)
            /\ pc' = IF prog \in ApiPrograms THEN "next_page"
                     ELSE IF prog \in BudgetPrograms THEN "api_page"
                     ELSE "text_page"
       ELSE /\ pc' = "returned"
            /\ UNCHANGED page
    /\ UNCHANGED <<replay, prog, max_pages, cats, base_url, catalog_id, idx, seen_keys, all_rows,
                   total_pages, pages_to_fetch, consecutive_empty, emitted, last>>

\* the outcomes of fetch_html on a category page (claude.py): None, or the page
TextResponses == {None} \cup {Some(t) : t \in TextPages}

\* scrape_lcsc_category (claude.py, main.py) up to the first pass of its loop
ScrapeBeginText ==
    /\ pc = "scrape"
    /\ prog \in TextPrograms
    /\ seen_keys' = FreshSeenKeys(seen_keys)
    /\ all_rows' = <<>>
    /\ consecutive_empty' = 0
    /\ last' = NothingFetched
    /\ IF 1 <= max_pages
       THEN page' = 1 /\ pc' = "text_page"
       ELSE page' = 0 /\ pc' = "returned"
    /\ UNCHANGED <<replay, prog, max_pages, cats, base_url, catalog_id, idx, total_pages,
                   pages_to_fetch, emitted, log>>

\* a loop that gives up only at the third failure in a row
ThreeFailures(n) == n >= 3

\* "if consecutive_empty >= 2"
TooManyFailures(n) == n >= 2

\* claude.py scrape_lcsc_category: one pass of the loop over 1..max_pages
FetchTextPage ==
    /\ pc = "text_page"
    /\ prog = "claude"
    /\ \E html \in TextResponses :
         LET Rest(candidates, products, added) ==
                 /\ consecutive_empty' = 0
                 /\ seen_keys' = added.seen_keys
                 /\ all_rows' = added.all_rows
                 /\ last' = Fetched(None, candidates, <<>>, products, added.new_count)
                 /\ UNCHANGED page
                 /\ pc' = IF NoNew(added.new_count) THEN "returned"
                          ELSE IF page < max_pages THEN "sleep"
                          ELSE "returned"
             Validated(candidates, products) ==
                 Rest(candidates, products, AddNew(products, page, seen_keys, all_rows))
             Page(candidates) ==
                 Validated(candidates, SelectSeq(candidates, ValidateProduct))
         IN  /\ log' = Append(log, PageRequest(page))
             /\ IF html = None
                THEN /\ consecutive_empty' = consecutive_empty + 1
                     /\ last' = FetchFailed
                     /\ UNCHANGED <<seen_keys, all_rows>>
                     /\ IF TooManyFailures(consecutive_empty + 1)
                        THEN pc' = "returned" /\ UNCHANGED page
                        ELSE IF page < max_pages
                             THEN page' = NextPage(page) /\ pc' = "text_page"
                             ELSE pc' = "returned" /\ UNCHANGED page
                ELSE Page(ClaudeCandidatesInText[html[1]])
    /\ UNCHANGED <<replay, prog, max_pages, cats, base_url, catalog_id, idx, total_pages,
                   pages_to_fetch, emitted>>

\* the outcomes of main.py's fetch_html: an exception, or the page
MainTextResponses == [raised : {TRUE}, failure : HtmlFailures, text : {<<>>}]
                     \cup [raised : {FALSE}, failure : {"none"}, text : TextPages]

\* main.py scrape_lcsc_category: one pass of the loop over 1..max_pages; an
\* exception of fetch_html leaves the function, and main, at once
FetchTextPageMain ==
    /\ pc = "text_page"
    /\ prog = "main"
    /\ \E resp \in MainTextResponses :
         LET Rest(products, added) ==
                 /\ seen_keys' = added.seen_keys
                 /\ all_rows' = added.all_rows
                 /\ last' = Fetched(None, products, <<>>, products, added.new_count)
                 /\ pc' = IF NoNew(added.new_count) THEN "returned" ELSE "sleep"
             Page(products) == Rest(products, AddNew(products, page, seen_keys, all_rows))
         IN  /\ log' = Append(log, PageRequest(page))
             /\ IF resp.raised
                THEN /\ pc' = "crashed"
                     /\ last' = FetchFailed
                     /\ UNCHANGED <<seen_keys, all_rows>>
                ELSE Page(MainExtractProductsFromText[resp.text])
    /\ UNCHANGED <<replay, prog, max_pages, cats, base_url, catalog_id, idx, total_pages,
                   pages_to_fetch, page, consecutive_empty, emitted>>

\* a loop over the categories that stops after its first pass
OnlyFirst(i, cat_list) == FALSE

\* "for idx, (...) in enumerate(filtered_cat_list, start=1)" has a pass after pass i
HasNext(i, cat_list) == i < Len(cat_list)

\* main, after scrape_lcsc_category returned df: an empty frame is skipped, any
\* other is written out; range.py then turns to the next category
AfterScrapeStep ==
    /\ pc = "returned"
    /\ emitted' = IF all_rows = <<>> THEN emitted
                  ELSE Append(emitted, [cat |-> idx, rows |-> Len(all_rows)])
    /\ IF HasNext(idx, cats)
       THEN /\ idx' = idx + 1
            /\ base_url' = cats[idx + 1].url
            /\ pc' = "scrape"
            /\ UNCHANGED log
       ELSE /\ pc' = "done"
            /\ log' = Append(log, OutputEntry(IF prog = "range"
                                              THEN WriterClose(emitted')
                                              ELSE SaveOrReport(all_rows)))
            /\ UNCHANGED <<idx, base_url>>
    /\ UNCHANGED <<prog, max_pages, cats, catalog_id, seen_keys, all_rows, total_pages,
                   pages_to_fetch, page, consecutive_empty, last>>

AfterScrape == AfterScrapeStep /\ UNCHANGED replay

Next ==
    \/ Discover
    \/ ScrapeBegin
    \/ FetchFirstPage
    \/ FetchNextPage
    \/ ChatgptScrapeBegin
    \/ ChatgptFetchPage
    \/ Sleep
    \/ ScrapeBeginText
    \/ FetchTextPage
    \/ FetchTextPageMain
    \/ AfterScrape

Spec == Init /\ [][Next]_vars

\* the scheduler runs the program on: no step that can be taken is put off forever
FairSpec == Spec /\ WF_vars(Next)

-----------------------------------------------------------------------------
(* build_specs_from_item (rangeWithSpecs.py) *)

sCategory == <<"C", "a", "t", "e", "g", "o", "r", "y">>
sManufacturer == <<"M", "a", "n", "u", "f", "a", "c", "t", "u", "r", "e", "r">>
sPackage == <<"P", "a", "c", "k", "a", "g", "e">>

\* "a or b or ...": the first of the values that is not empty, or the last of them
\* (a missing field and None read as the empty string)
FirstTruthy(values) ==
    LET truthy == {i \in 1..Len(values) : values[i] # <<>>}
    IN  IF truthy = {} THEN <<>> ELSE values[Min(truthy)]

\* a specs in which no key is ever found
NoKeyIn(specs, name) == FALSE

\* "name in specs"
KeyIn(specs, name) == \E i \in 1..Len(specs) : specs[i].key = name

\* specs[name] = value: a dict keeps the place of a key it has, and puts a new key
\* last
SetKey(specs, name, value) ==
    IF \E i \in 1..Len(specs) : specs[i].key = name
    THEN [i \in 1..Len(specs) |->
             IF specs[i].key = name THEN [key |-> name, value |-> value] ELSE specs[i]]
    ELSE Append(specs, [key |-> name, value |-> value])

\* "if v: specs[name] = v.strip()"
SetIfTruthy(specs, name, v) == IF v # <<>> THEN SetKey(specs, name, Strip(v)) ELSE specs

\* "for p in item.get("paramVOList") or []"
RECURSIVE AddParams(_, _)
AddParams(params, specs) ==
    IF params = <<>> THEN specs
    ELSE LET p == Head(params)
             name == Strip(FirstTruthy(<<p.paramNameEn, p.paramName>>))
             value == Strip(FirstTruthy(<<p.paramValueEn, p.paramValue>>))
         IN  IF name = <<>> \/ value = <<>> THEN AddParams(Tail(params), specs)
             ELSE IF KeyIn(specs, name) THEN AddParams(Tail(params), specs)
             ELSE AddParams(Tail(params), SetKey(specs, name, value))

\* build_specs_from_item: the specs dict, as its (key, value) entries in the order of
\* insertion
BuildSpecsFromItem(item) ==
    LET cat == FirstTruthy(<<item.wmCatalogNameEn, item.firstWmCatalogNameEn,
                             item.secondWmCatalogNameEn, item.thirdWmCatalogNameEn>>)
        manu == item.brandNameEn
        pkg == FirstTruthy(<<item.encapStandard, item.encapEn, item.encap,
                             item.packageEn>>)
        s1 == SetIfTruthy(<<>>, sCategory, cat)
        s2 == SetIfTruthy(s1, sManufacturer, manu)
        s3 == SetIfTruthy(s2, sPackage, pkg)
    IN  AddParams(item.paramVOList, s3)

\* the entries of a paramVOList
Param ==
    [Width |->
         [paramNameEn |-> <<"W", "i", "d", "t", "h">>, paramName |-> <<>>,
          paramValueEn |-> <<"5", "m", "m">>, paramValue |-> <<>>],
     WidthAgain |->
         [paramNameEn |-> <<"W", "i", "d", "t", "h">>, paramName |-> <<>>,
          paramValueEn |-> <<"9", "m", "m">>, paramValue |-> <<>>],
     WidthNoValue |->
         [paramNameEn |-> <<" ", "W", "i", "d", "t", "h">>, paramName |-> <<>>,
          paramValueEn |-> <<" ", " ">>, paramValue |-> <<>>],
     NoName |->
         [paramNameEn |-> <<" ">>, paramName |-> <<"W", "i", "d", "t", "h">>,
          paramValueEn |-> <<"5", "m", "m">>, paramValue |-> <<>>],
     Height |->
         [paramNameEn |-> <<>>, paramName |-> <<" ", "H", "e", "i", "g", "h", "t", " ">>,
          paramValueEn |-> <<>>, paramValue |-> <<"2", "m", "m", " ">>],
     Category |->
         [paramNameEn |-> <<"C", "a", "t", "e", "g", "o", "r", "y">>, paramName |-> <<>>,
          paramValueEn |-> <<"E", "v", "i", "l">>, paramValue |-> <<>>],
     Manufacturer |->
         [paramNameEn |-> <<>>, paramName |-> sManufacturer,
          paramValueEn |-> <<>>, paramValue |-> <<"F", "a", "k", "e">>],
     Package |->
         [paramNameEn |-> <<"P", "a", "c", "k", "a", "g", "e", " ">>, paramName |-> <<>>,
          paramValueEn |-> <<"B", "a", "d">>, paramValue |-> <<>>]]

\* the paramVOList values of an item
ParamLists ==
    { <<>>,
      <<Param.Width>>,
      <<Param.Width, Param.WidthAgain>>,
      <<Param.WidthNoValue, Param.WidthAgain, Param.Width>>,
      <<Param.NoName, Param.Height>>,
      <<Param.Category, Param.Width>>,
      <<Param.Manufacturer, Param.Package, Param.Category>>,
      <<Param.Height, Param.Package, Param.Height, Param.WidthNoValue>>,
      <<Param.Category, Param.WidthNoValue, Param.WidthAgain, Param.NoName,
        Param.Width>> }

\* the items build_specs_from_item is given
SpecItems ==
    [wmCatalogNameEn : {<<>>, <<"T", "r">>, <<" ">>},
     firstWmCatalogNameEn : {<<>>, <<" ", "F", "i">>},
     secondWmCatalogNameEn : {<<>>},
     thirdWmCatalogNameEn : {<<>>, <<"T", "h">>},
     brandNameEn : {<<>>, <<"T", "I", " ">>},
     encapStandard : {<<>>},
     encapEn : {<<>>, <<"S", "O", "T">>},
     encap : {<<>>},
     packageEn : {<<>>, <<"0", "6", "0", "3">>},
     paramVOList : ParamLists]

\* build_specs_from_item on its own: last holds the item it is given and, once it
\* has returned, the specs
SpecsInit ==
    /\ prog = "rangeWithSpecs"
    /\ pc = "item"
    /\ \E item \in SpecItems : last = [item |-> item, specs |-> <<>>]
    /\ max_pages = 0
    /\ cats = <<>>
    /\ base_url = <<>>
    /\ catalog_id = None
    /\ idx = 1
    /\ seen_keys = {}
    /\ all_rows = <<>>
    /\ total_pages = 0
    /\ pages_to_fetch = 0
    /\ page = 0
    /\ consecutive_empty = 0
    /\ emitted = <<>>
    /\ log = <<>>
    /\ replay = None

\* specs_dict = build_specs_from_item(item)
BuildSpecs ==
    /\ pc = "item"
    /\ prog = "rangeWithSpecs"
    /\ last' = [last EXCEPT !.specs = BuildSpecsFromItem(last.item)]
    /\ pc' = "specs"
    /\ UNCHANGED <<replay, prog, max_pages, cats, base_url, catalog_id, idx, seen_keys, all_rows,
                   total_pages, pages_to_fetch, page, consecutive_empty, emitted, log>>

SpecsNext == BuildSpecs

SpecsSpec == SpecsInit /\ [][SpecsNext]_vars

-----------------------------------------------------------------------------
(* A harvest run twice against the same responses *)

\* what the service is fixed to answer: pages[n] to the request for page n of the
\* category, detail to the request for a detail page
ReplayResponses ==
    LET Ok(total, dataList) == [status |-> "ok", result |-> "object", totalPage |-> total,
                               dataList |-> dataList]
        answers == { [status |-> "timeout", result |-> "none", totalPage |-> None,
                     dataList |-> <<>>],
                     Ok(Some(MaxTotal), <<ItemFet, ItemFetDup>>),
                     Ok(Some(2), <<ItemFetDup, ItemRes>>),
                     Ok(None, <<ItemRes, ItemFet, ItemRes>>),
                     Ok(Some(MaxTotal), <<>>) }
    IN  [pages : [1..MaxTotal -> answers], detail : DetailResponses]

\* single.py calls scrape_lcsc_category(BASE_URL, MAX_PAGES); the service is fixed
ReplayInit ==
    /\ prog = "single"
    /\ max_pages \in {0, 2, MaxCap}
    /\ cats = <<>>
    /\ base_url = BaseUrlCategory
    /\ catalog_id = None
    /\ idx = 1
    /\ pc = "scrape"
    /\ seen_keys = {}
    /\ all_rows = <<>>
    /\ total_pages = 0
    /\ pages_to_fetch = 0
    /\ page = 0
    /\ consecutive_empty = 0
    /\ emitted = <<>>
    /\ last = NothingFetched
    /\ log = <<>>
    /\ \E fixed \in ReplayResponses : replay = Some([responses |-> fixed, first |-> None])

\* the details the fixed service gives for the items of dataList
ReplayDetails(dataList) == [i \in DetailNeeds(dataList) |-> replay[1].responses.detail]

\* the first page of a harvest, answered as fixed
ReplayFirstPage ==
    FirstPageGiven(replay[1].responses.pages[1],
                   ReplayDetails(replay[1].responses.pages[1].dataList))

\* a later page of a harvest, answered as fixed
ReplayNextPage ==
    /\ pc = "next_page"
    /\ NextPageGiven(replay[1].responses.pages[page],
                     ReplayDetails(replay[1].responses.pages[page].dataList))

\* the first harvest has returned its records: scrape_lcsc_category is called again
\* with the same base_url and max_pages
HarvestAgain ==
    /\ pc = "returned"
    /\ replay[1].first = None
    /\ replay' = Some([replay[1] EXCEPT !.first = Some(all_rows)])
    /\ pc' = "scrape"
    /\ UNCHANGED <<prog, max_pages, cats, base_url, catalog_id, idx, seen_keys, all_rows,
                   total_pages, pages_to_fetch, page, consecutive_empty, emitted, last, log>>

ReplayNext ==
    \/ ScrapeBegin
    \/ ReplayFirstPage
    \/ ReplayNextPage
    \/ Sleep
    \/ HarvestAgain

ReplaySpec == ReplayInit /\ [][ReplayNext]_vars

-----------------------------------------------------------------------------
(* range.py run twice against a service that is fixed *)

\* the answers to a page request
RerunAnswers ==
    LET Ok(total, dataList) == [status |-> "ok", result |-> "object", totalPage |-> total,
                               dataList |-> dataList]
    IN  { [status |-> "timeout", result |-> "none", totalPage |-> None,
                     dataList |-> <<>>],
          Ok(Some(3), <<ItemFet, ItemFetDup>>),
          Ok(Some(2), <<ItemFetDup, ItemRes>>),
          Ok(None, <<ItemRes, ItemFet, ItemRes>>),
          Ok(Some(3), <<>>) }

\* the pages of a category the service has answers for
RerunPages == {1, 2, 3}

\* the answers to the request for the last of these pages
RerunLastAnswers == {answer \in RerunAnswers : answer.totalPage = None}

\* the answers to the request for the index page: a failure, a page with one
\* category, a page with two categories in the id range
RerunIndexes == {None, Some(IndexOne), Some(IndexTwo)}

\* the catalog ids range.py asks pages for, given the index page
RerunIds(html) ==
    {FilteredCatList(DiscoveredCategories[html])[i].cat_id :
        i \in 1..Len(FilteredCatList(DiscoveredCategories[html]))}

\* the codes whose detail page is requested for an item of these answers
RerunCodes ==
    UNION {{DetailRequests[answer.dataList][k] : k \in 1..Len(DetailRequests[answer.dataList])} :
           answer \in RerunAnswers}

\* what the service is fixed to answer: index to the request for the index page,
\* pages[<<id, n>>] to the request for page n of catalog id, detail[code] to the
\* request for the detail page of code
RerunResponses ==
    UNION {[index : {html},
            pages : {answers \in [RerunIds(html) \X RerunPages -> RerunAnswers] :
                        \A id \in RerunIds(html) : answers[<<id, 3>>] \in RerunLastAnswers},
            detail : [RerunCodes -> DetailResponses]] : html \in RerunIndexes}

\* range.py is started; the service is fixed
RerunInit ==
    /\ prog = "range"
    /\ max_pages \in {0, 2}
    /\ cats = <<>>
    /\ base_url = <<>>
    /\ catalog_id = None
    /\ idx = 0
    /\ pc = "main"
    /\ seen_keys = {}
    /\ all_rows = <<>>
    /\ total_pages = 0
    /\ pages_to_fetch = 0
    /\ page = 0
    /\ consecutive_empty = 0
    /\ emitted = <<>>
    /\ last = NothingFetched
    /\ log = <<>>
    /\ \E fixed \in RerunResponses :
           replay = Some([responses |-> fixed, first |-> None, harvested |-> <<>>])

\* the index page, answered as fixed
RerunDiscover ==
    /\ pc = "main"
    /\ DiscoverGiven(replay[1].responses.index)

\* the answers the fixed service gives to the detail requests for the items of
\* dataList
RerunDetails(dataList) ==
    [i \in DetailNeeds(dataList) |-> replay[1].responses.detail[Strip(dataList[i].productCode)]]

\* the answer the fixed service gives to the request for page n of the category
RerunPage(n) == replay[1].responses.pages[<<catalog_id[1], n>>]

\* the first page of a category, answered as fixed
RerunFirstPage ==
    /\ pc = "page1"
    /\ FirstPageGiven(RerunPage(1), RerunDetails(RerunPage(1).dataList))

\* a later page of a category, answered as fixed
RerunNextPage ==
    /\ pc = "next_page"
    /\ NextPageGiven(RerunPage(page), RerunDetails(RerunPage(page).dataList))

\* main, after scrape_lcsc_category returned; the records it returned for the
\* category are noted
RerunAfterScrape ==
    /\ AfterScrapeStep
    /\ replay' = Some([replay[1] EXCEPT
                          !.harvested = Append(@, [url |-> base_url, rows |-> all_rows])])

\* the run has ended: range.py is started again, against the same service
RunAgain ==
    /\ pc = "done"
    /\ replay[1].first = None
    /\ replay' = Some([replay[1] EXCEPT
                          !.first = Some([cats |-> cats, harvested |-> replay[1].harvested]),
                          !.harvested = <<>>])
    /\ cats' = <<>>
    /\ base_url' = <<>>
    /\ catalog_id' = None
    /\ idx' = 0
    /\ pc' = "main"
    /\ seen_keys' = {}
    /\ all_rows' = <<>>
    /\ total_pages' = 0
    /\ pages_to_fetch' = 0
    /\ page' = 0
    /\ consecutive_empty' = 0
    /\ emitted' = <<>>
    /\ last' = NothingFetched
    /\ log' = <<>>
    /\ UNCHANGED <<prog, max_pages>>

RerunNext ==
    \/ RerunDiscover
    \/ ScrapeBegin
    \/ RerunFirstPage
    \/ RerunNextPage
    \/ Sleep
    \/ RerunAfterScrape
    \/ RunAgain

RerunSpec == RerunInit /\ [][RerunNext]_vars

-----------------------------------------------------------------------------
(* The functions of the programs on their own *)

\* a text followed by a price, as the listings carry it
WithPrice(text) == text \o <<" ", " ", "$", "0", ".", "1", "2", " ", "e", "a">>

\* texts of 195 to 207 characters around the cut-off of clean_description, in words
\* of several lengths or in one word, alone or followed by a price
CleanTexts ==
    UNION {{LongText(n, w, "x"), WithPrice(LongText(n, w, "x"))} :
               n \in 195..207, w \in {7, 100, 200, 201, 300}}

MaxSheets == 3

\* the limit of Excel on the length of a sheet name: len(name) > 31, name[:31]
SheetNameLimit == 31

\* the characters that '[\\/*?:\[\]]' replaces
SheetForbidden == {"\\", "/", "*", "?", ":", "[", "]"}

sSheet == <<"S", "h", "e", "e", "t">>

\* s[:n]
Prefix(s, n) == SubSeq(s, 1, IF Len(s) < n THEN Len(s) ELSE n)

\* str(n) for n >= 0
RECURSIVE DecimalOf(_)
DecimalOf(n) ==
    LET digit == CHOOSE c \in AsciiDigits : DigitValue(c) = n % 10
    IN  IF n < 10 THEN <<digit>> ELSE Append(DecimalOf(n \div 10), digit)

\* a loop that returns the name as it comes, used or not
FirstTry(name, base, suffix, used) == name

\* "while name in used: name = f"{base[:28]}_{suffix}"; suffix += 1"
RECURSIVE FreeName(_, _, _, _)
FreeName(name, base, suffix, used) ==
    IF name \notin used THEN name
    ELSE FreeName(Prefix(base, 28) \o <<"_">> \o DecimalOf(suffix), base, suffix + 1, used)

\* make_excel_sheet_name: the name returned; the caller's set gets it added
MakeExcelSheetName(raw_name, fallback, used) ==
    LET picked == IF raw_name # <<>> THEN raw_name
                  ELSE IF fallback # <<>> THEN fallback ELSE sSheet
        stripped == Strip(picked)
        clean == [i \in 1..Len(stripped) |->
                     IF stripped[i] \in SheetForbidden THEN "_" ELSE stripped[i]]
        name == IF Len(clean) > SheetNameLimit THEN Prefix(clean, SheetNameLimit) ELSE clean
    IN  FreeName(name, name, 1, used)

\* df[column].dropna().iloc[0] when df[column].notna().any(), else None: a value
\* is NaN in the rows that lack the column, and the strings of the records, empty
\* or not, are never NaN
FirstNotNa(rows, column) ==
    LET present == {i \in 1..Len(rows) : column \in DOMAIN rows[i]}
    IN  IF present = {} THEN None ELSE Some(rows[Min(present)][column])

\* main: sheet_base for the frame of a category
SheetBase(rows, cat_name) ==
    LET chosen == IF FirstNotNa(rows, "childcategory") # None
                  THEN FirstNotNa(rows, "childcategory")[1]
                  ELSE IF FirstNotNa(rows, "subcategory") # None
                  THEN FirstNotNa(rows, "subcategory")[1]
                  ELSE IF FirstNotNa(rows, "category") # None
                  THEN FirstNotNa(rows, "category")[1]
                  ELSE <<>>
    IN  IF chosen = <<>> THEN cat_name ELSE chosen

\* a record of a frame, as far as main reads it
Row(category, subcategory, childcategory) ==
    [category |-> category, subcategory |-> subcategory, childcategory |-> childcategory]

\* a name of 33 characters that ends in c
LongName(c) == [i \in 1..33 |-> IF i = 33 THEN c ELSE "n"]

\* the frames of harvested categories with the id and the menu name of each: names
\* at every level, names missing from the lowest level up, names that are the same
\* once cleaned or once cut, and one that looks like a numbered name
SheetCalls ==
    LET Call(rows, cat_id, cat_name) ==
            [rows |-> rows, cat_id |-> cat_id, cat_name |-> cat_name]
        Tr == <<"T", "r">>
        FET == <<"F", "E", "T">>
        MOS == <<"M", "O", "S">>
    IN  { Call(<<Row(Tr, FET, MOS)>>, 11, <<"F", "E", "T", "s">>),
          Call(<<Row(Tr, FET, <<>>), Row(Tr, FET, MOS)>>, 11, <<"F", "E", "T", "s">>),
          Call(<<Row(Tr, <<>>, <<>>)>>, 12, MOS),
          Call(<<Row(<<>>, <<>>, <<>>)>>, 7, <<>>),
          Call(<<Row(Tr, FET, MOS \o <<"_", "1">>)>>, 11, MOS),
          Call(<<Row(Tr, FET, <<"A", "/", "B">>)>>, 11, MOS),
          Call(<<Row(Tr, FET, <<"A", "_", "B">>)>>, 12, MOS),
          Call(<<Row(Tr, FET, LongName("a"))>>, 11, MOS),
          Call(<<Row(Tr, FET, LongName("b"))>>, 12, MOS) }

\* a function of the programs applied to an input of its own: last holds the input
\* and, once the function has returned, the result
PureInit ==
    /\ pc = "call"
    /\ \/ /\ prog = "clean"
          /\ \E text \in CleanTexts : last = [text |-> text, cleaned |-> <<>>]
       \/ /\ prog = "sheets"
          /\ last = [used |-> {}, names |-> <<>>, calls |-> <<>>, bases |-> <<>>]
       \/ /\ prog = "discover"
          /\ \E html \in IndexResponses : \E lo, hi \in IdRangeEnds :
                 last = [html |-> html, lo |-> lo, hi |-> hi,
                         inside |-> <<>>, after |-> <<>>]
    /\ max_pages = 0
    /\ cats = <<>>
    /\ base_url = <<>>
    /\ catalog_id = None
    /\ idx = 1
    /\ seen_keys = {}
    /\ all_rows = <<>>
    /\ total_pages = 0
    /\ pages_to_fetch = 0
    /\ page = 0
    /\ consecutive_empty = 0
    /\ emitted = <<>>
    /\ log = <<>>
    /\ replay = None

\* desc = clean_description(text)
CleanText ==
    /\ pc = "call"
    /\ prog = "clean"
    /\ last' = [last EXCEPT !.cleaned = CleanDescription(last.text)]
    /\ pc' = "returned"
    /\ UNCHANGED <<replay, prog, max_pages, cats, base_url, catalog_id, idx, seen_keys, all_rows,
                   total_pages, pages_to_fetch, page, consecutive_empty, emitted, log>>

\* the two discoveries of the categories of a range: rangeWithSpecs.py filters
\* inside get_all_category_urls, range.py filters the list it returns
DiscoverBothWays ==
    /\ pc = "call"
    /\ prog = "discover"
    /\ last' = [last EXCEPT
                    !.inside = GetAllCategoryUrlsInRange(last.html, last.lo, last.hi),
                    !.after = FilterByRange(GetAllCategoryUrls(last.html), last.lo, last.hi)]
    /\ pc' = "returned"
    /\ UNCHANGED <<replay, prog, max_pages, cats, base_url, catalog_id, idx, seen_keys, all_rows,
                   total_pages, pages_to_fetch, page, consecutive_empty, emitted, log>>

\* main, for one category with a frame that is not empty: sheet_base, then the sheet
\* name from make_excel_sheet_name, which adds it to used_sheet_names
NameSheet ==
    /\ pc = "call"
    /\ prog = "sheets"
    /\ Len(last.names) < MaxSheets
    /\ \E call \in SheetCalls :
         LET Named(sheet_base, sheet_name) ==
                 last' = [used |-> last.used \cup {sheet_name},
                          names |-> Append(last.names, sheet_name),
                          calls |-> Append(last.calls, call),
                          bases |-> Append(last.bases, sheet_base)]
             Base(sheet_base) ==
                 Named(sheet_base,
                       MakeExcelSheetName(sheet_base,
                                          <<"c", "a", "t", "_">> \o DecimalOf(call.cat_id),
                                          last.used))
         IN  Base(SheetBase(call.rows, call.cat_name))
    /\ UNCHANGED <<replay, prog, pc, max_pages, cats, base_url, catalog_id, idx, seen_keys, all_rows,
                   total_pages, pages_to_fetch, page, consecutive_empty, emitted, log>>

PureNext ==
    \/ CleanText
    \/ NameSheet
    \/ DiscoverBothWays

PureSpec == PureInit /\ [][PureNext]_vars

-----------------------------------------------------------------------------
(* Vocabulary of the properties *)

\* the page requests made so far for category c, oldest first
PageEntries(c) ==
    LET IsPageOfC(e) == e.kind = "page" /\ e.cat = c
    IN  SelectSeq(log, IsPageOfC)

\* the page numbers requested so far for category c, in the order of the requests
PagesOf(c) == [i \in 1..Len(PageEntries(c)) |-> PageEntries(c)[i].page]

\* every page request made so far, oldest first
AllPageEntries ==
    LET IsPage(e) == e.kind = "page"
    IN  SelectSeq(log, IsPage)

Structured == prog \in ApiPrograms \cup BudgetPrograms
TextSource == prog \in TextPrograms

\* scrape_lcsc_category is inside its loop: a further page request is coming
Paginating == pc \in {"next_page", "api_page", "sleep", "text_page"}

\* scrape_lcsc_category has left its loop for the current category
Stopped == pc \in {"returned", "done"}

\* the current category has had its first page, and that page had products
FirstPageAccepted ==
    pc \in {"next_page", "api_page", "sleep", "returned", "done"} /\ all_rows # <<>>


-----------------------------------------------------------------------------
(* C1 *)

\* the validator predicate, as the specification words it
ValidatorHolds(r) ==
    /\ Len(r.mpn) >= 2
    /\ r.manufacturer # <<>>
    /\ Len(r.lcsc_code) >= 5
    /\ r.lcsc_code[1] = "C"
    /\ \A k \in 2..Len(r.lcsc_code) : r.lcsc_code[k] \in Digits

\* C1: after any sequence of page responses, every record scrape_lcsc_category has
\* accepted for emission satisfies the validator: an mpn of at least two characters,
\* a non-empty manufacturer, and an lcsc_code made of "C" and four or more digits.
C1_EmittedRecordsValid ==
    \A i \in 1..Len(all_rows) : ValidatorHolds(all_rows[i])

\* a frame of records from two pages has been written out
C1_Witness ==
    /\ pc = "done"
    /\ emitted # <<>>
    /\ \E i, j \in 1..Len(all_rows) : all_rows[i].page # all_rows[j].page

-----------------------------------------------------------------------------
(* C2 *)

\* C2: within one call of scrape_lcsc_category no two accepted records have the
\* same (mpn, lcsc_code) pair, however items repeat within a page or across pages.
C2_NoDuplicateKeys ==
    \A i, j \in 1..Len(all_rows) :
        i # j => <<all_rows[i].mpn, all_rows[i].lcsc_code>>
                 # <<all_rows[j].mpn, all_rows[j].lcsc_code>>

\* a later page repeated a product and brought a new one: the repeat was dropped
C2_Witness ==
    /\ Len(PageEntries(idx)) >= 2
    /\ last.products = 2
    /\ last.new_count = 1
    /\ Len(all_rows) = 2

-----------------------------------------------------------------------------
(* C3 *)

\* in a structured harvest without a positive cap whose first page was accepted
\* with N = total_pages >= 1: the pages requested so far are 1..k in that order,
\* k <= N; the loop stops short of N only after a page without validated products,
\* and goes on only after a page that had some.  A first page without validated
\* products is the only page requested.
C3_State ==
    /\ (Structured /\ max_pages <= 0 /\ FirstPageAccepted /\ total_pages >= 1) =>
           LET k == Len(PageEntries(idx))
           IN  /\ PagesOf(idx) = [i \in 1..k |-> i]
               /\ k <= total_pages
               /\ (Stopped /\ k < total_pages => last.products = 0)
               /\ (Paginating => last.products > 0 /\ k < total_pages)
    /\ (Structured /\ (Paginating \/ Stopped) /\ PageEntries(idx) # <<>>
            /\ all_rows = <<>>) =>
           PagesOf(idx) = <<1>> /\ Stopped /\ last.products = 0

\* N is what page 1 reported (1 when it reported nothing), and no later page changes
\* it or the number of pages to fetch
C3_Step ==
    /\ (pc = "page1" /\ all_rows' # <<>>) =>
           total_pages' = (IF last'.total = None THEN 1 ELSE last'.total[1])
    /\ pc = "next_page" =>
           total_pages' = total_pages /\ pages_to_fetch' = pages_to_fetch

\* C3: in a structured-source harvest where page 1 reports totalPages = N >= 1 and no
\* positive cap is configured, the pages requested are exactly 1..N in that order,
\* unless an earlier page returns zero validated records, after which no page is
\* requested; the totalPages of later pages do not change N.
C3_PagesOneToN == []C3_State /\ [][C3_Step]_vars

\* all of 1..3 were requested for N = 3 while the last page reported another total
C3_Witness ==
    /\ Structured /\ max_pages <= 0 /\ Stopped
    /\ total_pages = 3
    /\ PagesOf(idx) = <<1, 2, 3>>
    /\ last.products > 0
    /\ last.other_total

-----------------------------------------------------------------------------
(* C4 *)

\* the number of pages that page 1 reported: range.py and single.py keep it in
\* total_pages (1 when the body had none); chatgpt_v2.py keeps it nowhere, and it is
\* known for it as long as page 1 is the latest page fetched
C4_Reported ==
    IF prog \in ApiPrograms
    THEN IF FirstPageAccepted /\ total_pages >= 1 THEN Some(total_pages) ELSE None
    ELSE IF PagesOf(idx) = <<1>> /\ last.total # None /\ last.total[1] >= 1
         THEN last.total ELSE None

\* C4: with a positive cap c and totalPages = N >= 1 reported by page 1, no more
\* than min(c, N) pages are requested for the category, and none numbered above
\* min(c, N); a first response without totalPages is followed by no other request.
\* A harvest that is still inside its loop has one more request to come.
C4_CapRespected ==
    /\ (Structured /\ max_pages > 0 /\ C4_Reported # None) =>
           LET N == C4_Reported[1]
               limit == IF max_pages <= N THEN max_pages ELSE N
               coming == IF Paginating THEN 1 ELSE 0
           IN  /\ Len(PageEntries(idx)) + coming <= limit
               /\ \A i \in 1..Len(PageEntries(idx)) : PagesOf(idx)[i] <= limit
    /\ (Structured /\ PagesOf(idx) = <<1>> /\ last.total = None) => Stopped

-----------------------------------------------------------------------------
(* C5 *)

\* C5: early-stop rule, in every harvest variant: as soon as a fetched page yields
\* zero new validated records (all its validated records have keys already seen in
\* this category, or it has none), no further page of that category is requested.
C5_StopOnNoNewEverywhere ==
    (Paginating /\ PageEntries(idx) # <<>> /\ last.ok) => last.new_count > 0

\* C5, as the code has it: a text-source harvest (claude.py, main.py) requests no
\* further page after a fetched page with zero new validated records; a
\* structured-source harvest (range.py, single.py, chatgpt_v2.py) requests no
\* further page after a page with zero validated records, a failed request included.
C5_StopRules ==
    /\ (TextSource /\ Paginating /\ PageEntries(idx) # <<>> /\ last.ok) =>
           last.new_count > 0
    /\ (Structured /\ Paginating /\ PageEntries(idx) # <<>>) => last.products > 0

\* a text-source harvest stopped below its cap on a page that only repeated products
C5_Witness ==
    /\ TextSource /\ Stopped
    /\ last.ok /\ last.products > 0 /\ last.new_count = 0
    /\ page < max_pages

-----------------------------------------------------------------------------
(* C6 *)

\* a structured harvest goes on to a further page only after a request that
\* succeeded, and has asked for each of the pages 1..k once, in that order
C6_State ==
    /\ (Structured /\ Paginating) => last.ok
    /\ (Structured /\ (Paginating \/ Stopped)) =>
           PagesOf(idx) = [i \in 1..Len(PageEntries(idx)) |-> i]

\* a failed request for a page after the first leaves the accepted rows as they are
\* and ends the loop; a returned frame that has rows is written out with all of them
C6_Step ==
    /\ (Structured /\ pc \in {"next_page", "api_page"} /\ ~last'.ok) =>
           all_rows' = all_rows /\ pc' = "returned"
    /\ (Structured /\ pc = "returned" /\ all_rows # <<>>) =>
           emitted' = Append(emitted, [cat |-> idx, rows |-> Len(all_rows)])

\* C6: in a structured-source harvest, when the request for page k >= 2 fails, the
\* page counts as empty: page k is not asked for again, no page above k is requested
\* for the category, and the records accepted from pages 1..k-1 are still emitted.
C6_FailedPageEndsHarvest == []C6_State /\ [][C6_Step]_vars

\* page 2 of 3 failed: the harvest ended there and the rows of page 1 were written
C6_Witness ==
    /\ Structured /\ pc = "done"
    /\ pages_to_fetch = 3
    /\ PagesOf(idx) = <<1, 2>>
    /\ ~last.ok
    /\ all_rows # <<>>
    /\ emitted # <<>>
    /\ emitted[Len(emitted)] = [cat |-> idx, rows |-> Len(all_rows)]

-----------------------------------------------------------------------------
(* C7 *)

\* C7: a page fetch never raises to its caller: whatever way the request fails, the
\* fetch returns an empty page and the harvest loop keeps control.
C7_FetchNeverRaises == pc # "crashed"

-----------------------------------------------------------------------------
(* C8 *)

\* claude.py: the loop goes on only if the latest fetch or the one before it
\* succeeded; it ends below max_pages on a failed fetch only if the fetch before it
\* failed as well; a fetch that succeeds leaves consecutive_empty at 0
C8_State ==
    prog = "claude" =>
        /\ Paginating => (last.ok \/ last.prev_ok)
        /\ (Stopped /\ PageEntries(idx) # <<>> /\ ~last.ok /\ page < max_pages) =>
               ~last.prev_ok
        /\ (PageEntries(idx) # <<>> /\ last.ok) => consecutive_empty = 0

\* a failed fetch leaves the accepted rows as they are; a returned frame that has rows
\* is written out with all of them
C8_Step ==
    /\ (prog = "claude" /\ pc = "text_page" /\ ~last'.ok) => all_rows' = all_rows
    /\ (prog = "claude" /\ pc = "returned" /\ all_rows # <<>>) =>
           emitted' = Append(emitted, [cat |-> idx, rows |-> Len(all_rows)])

\* C8: in claude.py's harvest, once two consecutive page fetches have failed no
\* further page is requested; one failed fetch followed by a successful one resets
\* the count, so failures that are not adjacent never abort the category; the records
\* accepted before the abort are still emitted.
C8_ConsecutiveFailures == []C8_State /\ [][C8_Step]_vars

\* pages 2 and 3 failed in a row under a cap of 4: the harvest ended at page 3 and
\* the rows of page 1 were written
C8_Witness ==
    /\ prog = "claude" /\ pc = "done"
    /\ PagesOf(idx) = <<1, 2, 3>>
    /\ max_pages > 3
    /\ ~last.ok /\ ~last.prev_ok
    /\ emitted = <<[cat |-> idx, rows |-> Len(all_rows)]>>

-----------------------------------------------------------------------------
(* C9 *)

\* range.py: the run ends only at the last category of the filtered list; every
\* category reached has had its first page requested, unless its URL has no id; a
\* scrape whose URL has no id requests no page and returns no row
C9_State ==
    /\ (prog = "range" /\ pc = "done" /\ cats # <<>>) => idx = Len(cats)
    /\ prog = "range" =>
           \A c \in 1..Len(cats) :
               (c < idx \/ (c = idx /\ (Paginating \/ Stopped))) =>
                   (PageEntries(c) # <<>> \/ ParseCatalogIdFromUrl(cats[c].url) = None)
    /\ (Structured /\ pc = "returned" /\ catalog_id = None) =>
           PageEntries(idx) = <<>> /\ all_rows = <<>>

\* after a category returned: a frame without rows writes nothing, and the loop
\* turns to the next category of the list, if there is one
C9_Step ==
    (prog = "range" /\ pc = "returned") =>
        /\ all_rows = <<>> => emitted' = emitted
        /\ idx < Len(cats) =>
               idx' = idx + 1 /\ pc' = "scrape" /\ base_url' = cats[idx + 1].url

\* C9: in multi-category mode every category of the filtered list is eventually
\* attempted, whatever the outcome of the categories before it: a category whose URL
\* has no parseable id issues no page request and is skipped, a category yielding
\* zero records is skipped, and in neither case is a later category left unprocessed.
C9_EveryCategoryAttempted ==
    /\ []C9_State
    /\ [][C9_Step]_vars
    /\ (prog = "range") ~> (pc = "done")

\* the first of two categories gave no record and was skipped; the second was
\* scraped and written out
C9_Witness ==
    /\ prog = "range" /\ pc = "done"
    /\ Len(cats) = 2
    /\ PageEntries(1) # <<>>
    /\ emitted = <<[cat |-> 2, rows |-> Len(all_rows)]>>

-----------------------------------------------------------------------------
(* C10 *)

\* C10: within a category the page numbers requested are strictly increasing from 1,
\* no page being requested twice; the categories are processed in the order of the
\* filtered discovery list, and all pages of a category are requested before the
\* first page of the next.
C10_Order ==
    /\ \A i \in 1..Len(AllPageEntries) :
           /\ (i = 1 \/ AllPageEntries[i - 1].cat # AllPageEntries[i].cat) =>
                  AllPageEntries[i].page = 1
           /\ AllPageEntries[i].cat <= idx
    /\ \A i \in 1..(Len(AllPageEntries) - 1) :
           IF AllPageEntries[i].cat = AllPageEntries[i + 1].cat
           THEN AllPageEntries[i].page < AllPageEntries[i + 1].page
           ELSE AllPageEntries[i].cat < AllPageEntries[i + 1].cat
    /\ (prog = "range" /\ (pc = "scrape" \/ Paginating \/ pc \in {"page1", "returned"})) =>
           base_url = cats[idx].url

\* two categories of two pages each
C10_Witness ==
    /\ prog = "range"
    /\ idx = 2
    /\ PagesOf(1) = <<1, 2>>
    /\ PagesOf(2) = <<1, 2>>

-----------------------------------------------------------------------------
(* C11 *)

\* C11: between any two consecutive page fetches of one category the politeness
\* delay is executed: when pages k and k+1 are both requested, a delay step lies
\* after the fetch of k and before the fetch of k+1, between page 1 and page 2 and
\* after a failed page of the text source as well.
C11_DelayBetweenPages ==
    \A i \in 1..(Len(log) - 1) :
        (log[i].kind = "page" /\ log[i + 1].kind = "page") =>
            log[i].cat # log[i + 1].cat

-----------------------------------------------------------------------------
(* C12 *)

\* C12: the politeness delay is never executed after the last page fetched for a
\* category: every delay step is followed by a page fetch of the same category (the
\* latest step of the history may be a delay only while the loop is still going to
\* fetch a page).
C12_NoDelayAfterLastPage ==
    \A i \in 1..Len(log) :
        log[i].kind = "sleep" =>
            IF i = Len(log)
            THEN Paginating
            ELSE log[i + 1].kind = "page" /\ log[i + 1].cat = log[i].cat

-----------------------------------------------------------------------------
(* C13 *)

\* the filter over any index page and any range lo..hi: what it keeps is in the
\* range and comes from the discovered list, and it keeps every discovered category
\* whose id is in the range
C13_Filter ==
    \A html \in IndexResponses : \A lo, hi \in IdRangeEnds :
        LET all == DiscoveredCategories[html]
            kept == FilterByRange(all, lo, hi)
        IN  /\ \A i \in 1..Len(kept) :
                   /\ lo <= kept[i].cat_id /\ kept[i].cat_id <= hi
                   /\ \E j \in 1..Len(all) : all[j] = kept[i]
            /\ \A j \in 1..Len(all) :
                   (lo <= all[j].cat_id /\ all[j].cat_id <= hi) =>
                       \E i \in 1..Len(kept) : kept[i] = all[j]

\* the run of range.py: the categories it loops over have ids in
\* CATEGORY_ID_START..CATEGORY_ID_END and are all the discovered ones that have;
\* scrape_lcsc_category gets the URL of one of them, and the id it sends to the API
\* is in the range
C13_Run ==
    prog = "range" =>
        /\ \A i \in 1..Len(cats) :
               CATEGORY_ID_START <= cats[i].cat_id /\ cats[i].cat_id <= CATEGORY_ID_END
        /\ cats # <<>> =>
               \E html \in IndexResponses :
                   \A j \in 1..Len(DiscoveredCategories[html]) :
                       LET c == DiscoveredCategories[html][j]
                       IN  /\ (\E i \in 1..Len(cats) : cats[i] = c)
                              \/ c.cat_id < CATEGORY_ID_START
                              \/ c.cat_id > CATEGORY_ID_END
                           /\ \A i \in 1..Len(cats) :
                                  \E k \in 1..Len(DiscoveredCategories[html]) :
                                      DiscoveredCategories[html][k] = cats[i]
        /\ pc \in {"scrape", "page1", "next_page", "sleep", "returned"} =>
               idx \in 1..Len(cats) /\ base_url = cats[idx].url
        /\ catalog_id # None =>
               CATEGORY_ID_START <= catalog_id[1] /\ catalog_id[1] <= CATEGORY_ID_END
        /\ \A i \in 1..Len(log) : log[i].kind = "page" => log[i].cat \in 1..Len(cats)

\* C13: for any index page and any range [A, B], every category that is harvested
\* has A <= id <= B: no category with an id outside the range is passed to
\* scrape_lcsc_category, and every discovered category with an id in the range is kept.
C13_OnlyInRangeHarvested == C13_Filter /\ C13_Run

\* an index page with the ids 11, 12 and 51: the run went through 11 and 12 and ended
C13_Witness ==
    /\ prog = "range" /\ pc = "done"
    /\ Len(cats) = 2
    /\ cats[1].cat_id = 11 /\ cats[2].cat_id = 12
    /\ PageEntries(1) # <<>> /\ PageEntries(2) # <<>>
    /\ \E j \in 1..Len(DiscoveredCategories[Some(IndexTwo)]) :
           DiscoveredCategories[Some(IndexTwo)][j].cat_id = 51

-----------------------------------------------------------------------------
(* C14 *)

\* a link that can become an entry: its href holds a category id, its text is not
\* blank and does not contain "View All"
C14_Candidate(a) ==
    /\ CategoryIdIn(a.href) # None
    /\ Strip(a.text) # <<>>
    /\ ~Contains(Strip(a.text), sViewAll)

\* the positions, in document order, of the candidate links for the id
C14_LinksOf(anchors, cat_id) ==
    {k \in 1..Len(anchors) :
        C14_Candidate(anchors[k]) /\ CategoryIdIn(anchors[k].href) = Some(cat_id)}

\* the list returned for the anchors of an index page
C14_ListFor(anchors, out) ==
    /\ \A i, j \in 1..Len(out) : i # j => out[i].cat_id # out[j].cat_id
    /\ \A i \in 1..Len(out) :
           /\ C14_LinksOf(anchors, out[i].cat_id) # {}
           /\ LET a == anchors[Min(C14_LinksOf(anchors, out[i].cat_id))]
              IN  /\ out[i].name = Strip(a.text)
                  /\ out[i].url = IF LitAt(a.href, 1, sHttp) THEN a.href ELSE sSite \o a.href
    /\ \A k \in 1..Len(anchors) :
           C14_Candidate(anchors[k]) =>
               \E i \in 1..Len(out) : Some(out[i].cat_id) = CategoryIdIn(anchors[k].href)
    /\ \A i, j \in 1..Len(out) :
           i < j => Min(C14_LinksOf(anchors, out[i].cat_id))
                    < Min(C14_LinksOf(anchors, out[j].cat_id))

\* the lists returned for the index pages
C14_Lists ==
    \A html \in IndexResponses :
        IF html = None THEN DiscoveredCategories[html] = <<>>
        ELSE C14_ListFor(html[1], DiscoveredCategories[html])

\* C14: get_all_category_urls returns at most one entry per category id; the entry
\* of an id carries the name and the URL of the first link for that id in document
\* order that has a name (first name seen wins); a link labelled "View All" is never
\* the source of an entry; the entries are in the order of first occurrence.  The
\* list range.py loops over is one of these lists, so it has no id twice either.
C14_OneEntryPerIdFirstWins ==
    /\ C14_Lists
    /\ \A i, j \in 1..Len(cats) : i # j => cats[i].cat_id # cats[j].cat_id
    /\ \A i \in 1..Len(cats) : ~Contains(cats[i].name, sViewAll)

\* the run discovered the page where id 11 is linked three times (as "FETs", as
\* "View All" and, written 011, as "MOSFETs") and loops over "FETs" and "Resistors"
C14_Witness ==
    /\ prog = "range"
    /\ Len(cats) = 2
    /\ cats[1] = [cat_id |-> 11, url |-> sSite \o IndexTwo[1].href, name |-> IndexTwo[1].text]
    /\ cats[2].cat_id = 12 /\ cats[2].url = IndexTwo[3].href
    /\ cats[2].name = Strip(IndexTwo[3].text)
    /\ Cardinality(C14_LinksOf(IndexTwo, 11)) = 2
    /\ pc = "scrape" /\ idx = 1

-----------------------------------------------------------------------------
(* C15 *)

\* the candidate is unsound, as the specification words it
C15_Unsound(c) ==
    \/ c.mpn = <<>>
    \/ c.lcsc_code = <<>>
    \/ c.manufacturer = <<>>
    \/ ~(/\ Len(c.lcsc_code) >= 5
         /\ c.lcsc_code[1] = "C"
         /\ \A k \in 2..Len(c.lcsc_code) : c.lcsc_code[k] \in Digits)
    \/ Len(c.mpn) < 2

\* the candidates of a page: mpn, lcsc_code and manufacturer of each raw item (of
\* each match of a page text), in the order of the page
C15_ItemCandidate ==
    [item \in RawItems |->
        [mpn |-> Strip(item.productModel), lcsc_code |-> Strip(item.productCode),
         manufacturer |-> Strip(item.brandNameEn)]]
C15_Candidates(raw) ==
    [i \in 1..Len(raw) |->
        IF "productModel" \in DOMAIN raw[i]
        THEN C15_ItemCandidate[raw[i]]
        ELSE [mpn |-> raw[i].mpn, lcsc_code |-> raw[i].lcsc_code,
              manufacturer |-> raw[i].manufacturer]]

\* the candidates of a page that are sound
C15_Sound(raw) ==
    LET IsSound(c) == ~C15_Unsound(c)
    IN  SelectSeq(C15_Candidates(raw), IsSound)

\* mpn, lcsc_code and manufacturer of each product of a list
C15_Core(products) ==
    [i \in 1..Len(products) |->
        [mpn |-> products[i].mpn, lcsc_code |-> products[i].lcsc_code,
         manufacturer |-> products[i].manufacturer]]

C15_Keys(products) == {<<products[i].mpn, products[i].lcsc_code>> : i \in 1..Len(products)}

\* validate_product rejects a candidate exactly when it is unsound, for every
\* candidate the extraction can build from an item or from a page text
C15_Verdicts ==
    /\ \A item \in RawItems : \A d \in DetailResponses :
           ValidateProduct(ItemProduct[item][d]) <=> ~C15_Unsound(ItemProduct[item][d])
    /\ \A t \in TextPages : \A i \in 1..Len(ClaudeCandidatesInText[t]) :
           ValidateProduct(ClaudeCandidatesInText[t][i])
               <=> ~C15_Unsound(ClaudeCandidatesInText[t][i])

\* the products a fetch returned are the sound candidates of the page, in order; the
\* seen keys are the keys of the collected rows; every sound candidate of the latest
\* page has exactly one row
C15_State ==
    /\ C15_Verdicts
    /\ C15_Core(last.validated) = C15_Sound(last.raw)
    /\ seen_keys = C15_Keys(all_rows)
    /\ \A i \in 1..Len(last.validated) :
           Cardinality({j \in 1..Len(all_rows) :
                           /\ all_rows[j].mpn = last.validated[i].mpn
                           /\ all_rows[j].lcsc_code = last.validated[i].lcsc_code}) = 1

\* a page fetch adds one row and one seen key for each key of its sound candidates
\* that was not seen before, and nothing else
C15_Step ==
    (log' # log /\ log'[Len(log')].kind = "page") =>
        LET fresh == C15_Keys(C15_Sound(last'.raw)) \ seen_keys
        IN  /\ seen_keys' = seen_keys \cup fresh
            /\ Len(all_rows') = Len(all_rows) + Cardinality(fresh)
            /\ SubSeq(all_rows', 1, Len(all_rows)) = all_rows
            /\ C15_Keys(all_rows') = C15_Keys(all_rows) \cup fresh

\* C15: a raw item is dropped by validation if and only if its mpn is empty, its
\* lcsc_code is empty, its manufacturer is empty, its lcsc_code fails the pattern of
\* "C" and four or more digits, or its mpn is shorter than 2; every raw item that
\* passes and whose key has not been seen in the category is emitted exactly once,
\* and a rejected item adds nothing to the emitted records or to the seen keys.
C15_ValidationExact == []C15_State /\ [][C15_Step]_vars

\* a page of three raw items, two of them unsound, gave one row
C15_Witness ==
    /\ Structured
    /\ Len(last.raw) = 3
    /\ Len(C15_Sound(last.raw)) = 1
    /\ Len(all_rows) = 1
    /\ \E i \in 1..3 : C15_Candidates(last.raw)[i].mpn = <<"A">>

-----------------------------------------------------------------------------
(* C16 *)

\* the positions of products that hold the first occurrence of a key not in seen
C16_FirstPositions(products, seen) ==
    {i \in 1..Len(products) :
        /\ <<products[i].mpn, products[i].lcsc_code>> \notin seen
        /\ \A j \in 1..(i - 1) :
               <<products[j].mpn, products[j].lcsc_code>>
                   # <<products[i].mpn, products[i].lcsc_code>>}

\* the products at those positions, in the order of the page, as records of page pg
C16_FirstOccurrences(products, seen, pg) ==
    LET keep == C16_FirstPositions(products, seen)
        Nth(n) == CHOOSE i \in keep : Cardinality({j \in keep : j <= i}) = n
    IN  [n \in 1..Cardinality(keep) |-> products[Nth(n)] @@ [page |-> pg]]

\* no two rows have the same key, and the rows are in the order of their pages
C16_State ==
    /\ \A i, j \in 1..Len(all_rows) :
           (all_rows[i].mpn = all_rows[j].mpn
               /\ all_rows[i].lcsc_code = all_rows[j].lcsc_code) => i = j
    /\ \A i, j \in 1..Len(all_rows) : i <= j => all_rows[i].page <= all_rows[j].page

\* a page fetch leaves the rows collected before as they are and in their place, and
\* appends the first occurrences of the keys that are new, with the fields they have
\* on this page and the number of this page; any other step leaves the rows alone or
\* starts a category with none
C16_Step ==
    IF log' # log /\ log'[Len(log')].kind = "page"
    THEN all_rows' = all_rows \o C16_FirstOccurrences(last'.validated, seen_keys,
                                                      log'[Len(log')].page)
    ELSE all_rows' = all_rows \/ (pc = "scrape" /\ all_rows' = <<>>)

\* C16: when a key repeats within a category the first occurrence wins: the emitted
\* sequence is the sequence of first occurrences of each key in arrival order (page
\* order, then item order within the page), the retained record has the fields and
\* the page number of the first occurrence, and later occurrences change neither the
\* emitted sequence nor the order.
C16_FirstOccurrenceWins == []C16_State /\ [][C16_Step]_vars

\* page 2 repeats, from another manufacturer, the key that page 1 gave first, and
\* brings a new key after it
C16_Witness ==
    /\ Len(PageEntries(idx)) = 2
    /\ Len(all_rows) = 2
    /\ all_rows[1].page = 1 /\ all_rows[1].manufacturer = <<"T", "I">>
    /\ all_rows[2].page = 2
    /\ Len(last.validated) = 2
    /\ last.validated[1].mpn = all_rows[1].mpn
    /\ last.validated[1].lcsc_code = all_rows[1].lcsc_code
    /\ last.validated[1].manufacturer = <<"O", "N">>

-----------------------------------------------------------------------------
(* C17 *)

\* the rows of the current category that come from the pages before page p
C17_RowsBefore(p) ==
    LET Earlier(r) == r.page < p
    IN  SelectSeq(all_rows, Earlier)

\* the rows of the current category that come from page p
C17_RowsOf(p) ==
    LET OfPage(r) == r.page = p
    IN  SelectSeq(all_rows, OfPage)

\* a category starts without rows and without seen keys; its rows carry the numbers
\* of pages requested for it; and what its latest page added is the first occurrences
\* of that page's validated products among the keys of its own earlier pages
C17_State ==
    /\ (pc \in {"page1", "next_page", "api_page", "sleep", "text_page", "returned"}
            /\ PageEntries(idx) = <<>>) =>
           seen_keys = {} /\ all_rows = <<>>
    /\ pc # "scrape" =>
           \A i \in 1..Len(all_rows) :
               \E k \in 1..Len(PageEntries(idx)) : PagesOf(idx)[k] = all_rows[i].page
    /\ (pc # "scrape" /\ PageEntries(idx) # <<>>) =>
           LET p == PagesOf(idx)[Len(PageEntries(idx))]
           IN  C17_RowsOf(p) = C16_FirstOccurrences(last.validated,
                                                    C15_Keys(C17_RowsBefore(p)), p)

\* the first page that a category gets, whatever was emitted for the categories
\* before it, gives the first occurrence of every key among its validated products
C17_Step ==
    (log' # log /\ log'[Len(log')].kind = "page" /\ PageEntries(idx) = <<>>) =>
        all_rows' = C16_FirstOccurrences(last'.validated, {}, log'[Len(log')].page)

\* C17: deduplication state is fresh per category: in a run over several categories a
\* record whose (mpn, lcsc_code) was emitted for an earlier category is still emitted
\* for a later category that contains it, and the records emitted for a category
\* depend only on that category's own pages.
C17_FreshPerCategory == []C17_State /\ [][C17_Step]_vars

\* range.py wrote two rows for the first category, which are both keys that the
\* pages can give, and has collected both again for the second
C17_Witness ==
    /\ prog = "range"
    /\ idx = 2
    /\ emitted = <<[cat |-> 1, rows |-> 2]>>
    /\ Len(all_rows) = 2
    /\ seen_keys = {<<ItemProduct[ItemFet][None].mpn, ItemProduct[ItemFet][None].lcsc_code>>,
                    <<ItemProduct[ItemRes][None].mpn, ItemProduct[ItemRes][None].lcsc_code>>}

-----------------------------------------------------------------------------
(* C18 *)

\* the description is within the limit and the marker
C18_Short(description) == Len(description) <= DescLimit + Len(Ellipsis)

\* clean_description on texts of 198 to 206 characters, in one word or in several,
\* and every description that the three extractions build: from the fields of an
\* item, from a detail page, from a match of the text pattern
C18_Cleaned ==
    /\ \A n \in 198..206 : \A w \in {7, 200, 201, 300} :
           LET d == CleanDescription(LongText(n, w, "x"))
           IN  /\ C18_Short(d)
               /\ Len(JoinSplit(LongText(n, w, "x"))) > DescLimit =>
                      SubSeq(d, Len(d) - 2, Len(d)) = Ellipsis
               /\ Len(JoinSplit(LongText(n, w, "x"))) <= DescLimit =>
                      d = JoinSplit(LongText(n, w, "x"))
    /\ \A item \in RawItems : \A html \in DetailResponses \cup {Some(DetailLong)} :
           /\ C18_Short(ProductOf(item, html).description)
           /\ C18_Short(FetchDescriptionFromDetail(Strip(item.productCode), html))
    /\ \A t \in TextPages : \A i \in 1..Len(ClaudeCandidatesInText[t]) :
           C18_Short(ClaudeCandidatesInText[t][i].description)

\* the descriptions of the rows collected and of the products of the latest page
C18_Rows ==
    /\ \A i \in 1..Len(all_rows) :
           "description" \in DOMAIN all_rows[i] => C18_Short(all_rows[i].description)
    /\ \A i \in 1..Len(last.validated) :
           "description" \in DOMAIN last.validated[i] =>
               C18_Short(last.validated[i].description)

\* C18: every emitted description has at most 200 characters plus the marker of three
\* (at most 203), whether it came from the primary field, from the text pattern, or
\* from the detail page.
C18_DescriptionBounded == C18_Cleaned /\ C18_Rows

\* a frame was written whose row has the description of TextLong, 210 characters on
\* the page, cut at the last space before the limit and closed by the marker
C18_Witness ==
    /\ pc = "done"
    /\ emitted # <<>>
    /\ \E i \in 1..Len(all_rows) :
           /\ "description" \in DOMAIN all_rows[i]
           /\ Len(all_rows[i].description) = 179 + Len(Ellipsis)
           /\ SubSeq(all_rows[i].description, 180, 182) = Ellipsis
           /\ all_rows[i].description = CleanDescription(LongText(210, 60, "t"))

-----------------------------------------------------------------------------
(* C19 *)

\* what the extraction gives as the description of an item, before any fallback
C19_ItemDescription ==
    [item \in RawItems |->
        CleanDescription(IF item.productIntroEn # <<>> THEN item.productIntroEn
                         ELSE item.productNameEn)]

\* the codes of the candidates of a page that have a code and whose extracted
\* description is empty, in the order of the page
C19_Lacking(raw) ==
    LET Lacks(c) ==
            IF "productModel" \in DOMAIN c
            THEN C19_ItemDescription[c] = <<>> /\ Strip(c.productCode) # <<>>
            ELSE c.description = <<>> /\ c.lcsc_code # <<>>
        lacking == SelectSeq(raw, Lacks)
    IN  [k \in 1..Len(lacking) |->
            IF "productModel" \in DOMAIN lacking[k] THEN Strip(lacking[k].productCode)
            ELSE lacking[k].lcsc_code]

\* C19: whenever the extraction of a page, from the structured source or from the
\* page text, yields an empty description for a record, one request and no more goes
\* to the detail page of that record, and no detail request is made for a record
\* whose extracted description is not empty.
C19_OneDetailRequestPerEmpty ==
    (Structured \/ prog = "claude") => last.requested = C19_Lacking(last.raw)

-----------------------------------------------------------------------------
(* C20 *)

\* the name and the value of a parameter, blank when they are empty or white space
C20_Name(p) == Strip(IF p.paramNameEn # <<>> THEN p.paramNameEn ELSE p.paramName)
C20_Value(p) == Strip(IF p.paramValueEn # <<>> THEN p.paramValueEn ELSE p.paramValue)

\* the reserved keys that the item sets from its own fields, each with the field
C20_Own(item) ==
    {kv \in {<<sCategory, IF item.wmCatalogNameEn # <<>> THEN item.wmCatalogNameEn
                          ELSE IF item.firstWmCatalogNameEn # <<>>
                          THEN item.firstWmCatalogNameEn
                          ELSE IF item.secondWmCatalogNameEn # <<>>
                          THEN item.secondWmCatalogNameEn
                          ELSE item.thirdWmCatalogNameEn>>,
             <<sManufacturer, item.brandNameEn>>,
             <<sPackage, IF item.encapStandard # <<>> THEN item.encapStandard
                         ELSE IF item.encapEn # <<>> THEN item.encapEn
                         ELSE IF item.encap # <<>> THEN item.encap
                         ELSE item.packageEn>>} : kv[2] # <<>>}

\* the specs of an item: a reserved key set from the item has the item's value; no
\* key occurs twice; every other key is the name of a parameter that has a name and a
\* value, with the value of the first such parameter of that name; and every
\* parameter that has a name and a value has its name among the keys
C20_Holds(item, specs) ==
    LET params == item.paramVOList
        Full(j) == C20_Name(params[j]) # <<>> /\ C20_Value(params[j]) # <<>>
        OwnKeys == {kv[1] : kv \in C20_Own(item)}
    IN  /\ \A kv \in C20_Own(item) :
               \E i \in 1..Len(specs) :
                   specs[i].key = kv[1] /\ specs[i].value = Strip(kv[2])
        /\ \A i, j \in 1..Len(specs) : specs[i].key = specs[j].key => i = j
        /\ \A i \in 1..Len(specs) :
               specs[i].key \notin OwnKeys =>
                   LET named == {j \in 1..Len(params) :
                                    Full(j) /\ C20_Name(params[j]) = specs[i].key}
                   IN  /\ named # {}
                       /\ specs[i].value = C20_Value(params[Min(named)])
        /\ \A j \in 1..Len(params) :
               Full(j) => \E i \in 1..Len(specs) : specs[i].key = C20_Name(params[j])

\* C20: for each item, a reserved specs key (Category, Manufacturer, Package) that was
\* set from the item's own fields keeps that value whatever paramVOList contains;
\* parameters with a blank name or a blank value add no key; and when a parameter
\* name occurs more than once the value of its first non-blank occurrence is the one
\* kept, so specs has one value per key.
C20_SpecsKeys ==
    (prog = "rangeWithSpecs" /\ pc = "specs") => C20_Holds(last.item, last.specs)

\* an item of category "Tr" whose parameters name Category, then Width without a
\* value, Width as 9mm, a parameter without a name, and Width as 5mm
C20_Witness ==
    /\ prog = "rangeWithSpecs" /\ pc = "specs"
    /\ last.item.wmCatalogNameEn = <<"T", "r">>
    /\ last.item.brandNameEn = <<>>
    /\ last.item.paramVOList
           = <<Param.Category, Param.WidthNoValue, Param.WidthAgain, Param.NoName, Param.Width>>
    /\ Len(last.specs) = 2
    /\ last.specs[1] = [key |-> sCategory, value |-> <<"T", "r">>]
    /\ last.specs[2] = [key |-> <<"W", "i", "d", "t", "h">>, value |-> <<"9", "m", "m">>]

-----------------------------------------------------------------------------
(* C21: runs that find nothing *)

\* the kinds of the output entries of the run so far
C21_Outputs == {log[i].kind : i \in 1..Len(log)} \ {"index", "page", "sleep"}

\* the run is over and wrote no record at all
C21_NothingHarvested == pc = "done" /\ emitted = <<>>

\* C21: when discovery yields no category, or none inside the id range, the run ends
\* without a request for a product page and without opening an output; and a run
\* whose harvest yields no record at all ends in an explicit empty-result outcome
\* (the abort or the "No data scraped" return), never in the handler of an error.
C21_EmptyOutcomesExplicit ==
    /\ (prog = "range" /\ pc = "done" /\ cats = <<>>) =>
           /\ AllPageEntries = <<>>
           /\ C21_Outputs = {"abort"}
    /\ C21_NothingHarvested => C21_Outputs \in {{"abort"}, {"no_data"}}

-----------------------------------------------------------------------------
(* C23: detail requests and validated records *)

\* the positions of a structured page whose item has an empty primary description
\* and makes a record the validator accepts
C23_ValidatedLacking(raw) ==
    {i \in 1..Len(raw) : /\ C19_ItemDescription[raw[i]] = <<>>
                          /\ ValidateProduct(C15_ItemCandidate[raw[i]])}

\* the positions of a structured page whose item the validator rejects and whose
\* code a detail request of the page was made for
C23_RejectedRequested(raw, requested) ==
    {i \in 1..Len(raw) : /\ ~ValidateProduct(C15_ItemCandidate[raw[i]])
                          /\ \E k \in 1..Len(requested) :
                                 requested[k] = C15_ItemCandidate[raw[i]].lcsc_code}

\* C23: the detail requests of a page of a category harvest are never more than the
\* validated records of that page whose primary description was empty, and none of
\* them is for a raw item that the validator rejects.
C23_DetailOnlyForValidated ==
    Structured =>
        /\ Len(last.requested) <= Cardinality(C23_ValidatedLacking(last.raw))
        /\ C23_RejectedRequested(last.raw, last.requested) = {}

-----------------------------------------------------------------------------
(* C24: a detail request that fails *)

\* the candidates of a structured page that the validator accepts, in page order
C24_Valid(raw) ==
    LET Accepted(item) == ValidateProduct(C15_ItemCandidate[item])
    IN  SelectSeq(raw, Accepted)

\* a harvest against a service whose detail pages fail, after a page for whose
\* items detail pages were requested
C24_DetailsFailed ==
    /\ replay # None
    /\ replay[1].responses.detail = None
    /\ last.requested # <<>>

\* whether a detail page was requested for item
C24_Requested(item, requested) ==
    /\ C19_ItemDescription[item] = <<>>
    /\ \E k \in 1..Len(requested) : requested[k] = C15_ItemCandidate[item].lcsc_code

\* C24: a detail request that fails or times out is a soft failure: the page still
\* counts as fetched, every item of the page is still validated on its other fields
\* and returned if valid, the record whose detail request failed keeps an empty
\* description and is accumulated like any other, and the loop over the pages goes
\* on as the page count says.
C24_DetailFailureSoft ==
    C24_DetailsFailed =>
        LET valid == C24_Valid(last.raw)
        IN  /\ last.ok
            /\ Len(last.validated) = Len(valid)
            /\ \A k \in 1..Len(valid) :
                   /\ last.validated[k].mpn = C15_ItemCandidate[valid[k]].mpn
                   /\ last.validated[k].lcsc_code = C15_ItemCandidate[valid[k]].lcsc_code
                   /\ C24_Requested(valid[k], last.requested) =>
                          last.validated[k].description = <<>>
                   /\ <<last.validated[k].mpn, last.validated[k].lcsc_code>> \in seen_keys
            /\ (pc = "returned" /\ valid # <<>>) => page >= pages_to_fetch

\* page 1 is <<ItemFetDup, ItemRes>> and the detail request for C1234 fails: both
\* records are accumulated, the first without a description, and page 2 is next
C24_Witness ==
    /\ C24_DetailsFailed
    /\ last.requested = <<<<"C", "1", "2", "3", "4">>>>
    /\ pc = "next_page" /\ page = 2
    /\ Len(all_rows) = 2
    /\ all_rows[1].lcsc_code = <<"C", "1", "2", "3", "4">>
    /\ all_rows[1].description = <<>>
    /\ all_rows[2].lcsc_code = <<"C", "U+FF15", "U+FF16", "U+FF17", "U+FF18", "U+FF19">>

-----------------------------------------------------------------------------
(* C25: the truncation rule of clean_description *)

\* the text with its whitespace collapsed and its price and piece-count tails removed
C25_Stripped(text) ==
    StripFromPcs(StripFromAmount(StripFromAmount(JoinSplit(text), <<"$">>),
                                 <<"U", "S", "$">>))

\* the positions of whitespace among the first 200 characters of t
C25_Breaks(t) == {k \in 1..Len(t) : k <= 200 /\ t[k] \in Whitespace}

\* (C25 as the specification words it: the cut is always at a whitespace)
\* for every whitespace-collapsed, noise-stripped text longer than 200 characters
\* the result is the prefix of the text ending just before the nearest whitespace at
\* or before position 200, followed by the ellipsis marker; texts of at most 200
\* characters are returned without an ellipsis.
C25_CutAtWhitespace ==
    (prog = "clean" /\ pc = "returned") =>
        LET t == C25_Stripped(last.text)
        IN  IF Len(t) > 200
            THEN /\ C25_Breaks(t) # {}
                 /\ last.cleaned = SubSeq(t, 1, Max(C25_Breaks(t)) - 1) \o <<".", ".", ".">>
            ELSE last.cleaned = t

\* C25: for every whitespace-collapsed, noise-stripped text longer than 200
\* characters the result is the prefix of the text ending just before the last
\* whitespace among its first 200 characters, or the first 200 characters themselves
\* when there is no whitespace among them, followed by the ellipsis marker; texts of
\* at most 200 characters are returned as they are, without an ellipsis.
C25_TruncationRule ==
    (prog = "clean" /\ pc = "returned") =>
        LET t == C25_Stripped(last.text)
        IN  IF Len(t) > 200
            THEN last.cleaned =
                     (IF C25_Breaks(t) = {} THEN SubSeq(t, 1, 200)
                      ELSE SubSeq(t, 1, Max(C25_Breaks(t)) - 1)) \o <<".", ".", ".">>
            ELSE last.cleaned = t

\* a text of 205 characters in words of six followed by a price: the price goes, and
\* the cut is before the space at position 196
C25_Witness ==
    /\ prog = "clean" /\ pc = "returned"
    /\ last.text = WithPrice(LongText(205, 7, "x"))
    /\ Len(C25_Stripped(last.text)) = 205
    /\ last.cleaned = LongText(195, 7, "x") \o <<".", ".", ".">>

-----------------------------------------------------------------------------
(* C26: termination *)

\* the run is over: main has returned after the pass for the last category, its last
\* step was what it did with its output, and nothing is left between two pages; the
\* uncaught exception of main.py or of chatgpt_v2.py ends the run as well
C26_Ended ==
    \/ /\ pc = "done"
       /\ cats # <<>> => idx = Len(cats)
       /\ log # <<>> /\ log[Len(log)].kind \in {"abort", "no_data", "saved", "write_error"}
    \/ prog \in {"main", "chatgpt_v2"} /\ pc = "crashed"

\* C26: every run terminates: whatever the index page, the totalPage values, the cap
\* and the failures, the pagination of each category stops after finitely many
\* requests and the run reaches its end after the last category, with no page and no
\* category left in progress.
C26_EveryRunTerminates == <>C26_Ended

\* range.py is over after two categories, the first harvested over as many pages as
\* the service reports, the last ended by a failed request
C26_Witness ==
    /\ prog = "range" /\ C26_Ended
    /\ Len(cats) = 2
    /\ Len(PageEntries(1)) = MaxTotal
    /\ PageEntries(2) # <<>>
    /\ ~last.ok

-----------------------------------------------------------------------------
(* C29: the seen keys and the accumulated records *)

\* the (mpn, lcsc_code) keys of the records accumulated so far
C29_RowKeys(rows) == {<<rows[i].mpn, rows[i].lcsc_code>> : i \in 1..Len(rows)}

\* the seen keys are the keys of the accumulated records, one record for each
C29_State ==
    /\ seen_keys = C29_RowKeys(all_rows)
    /\ Cardinality(seen_keys) = Len(all_rows)

\* within a category both only grow, by the same number of elements, which is the
\* number of records the page fetch accepted; a page of duplicates, an empty page and
\* a failed fetch change neither; a category starts with both empty
C29_Step ==
    IF pc = "scrape"
    THEN seen_keys' = {} /\ all_rows' = <<>>
    ELSE /\ seen_keys \subseteq seen_keys'
         /\ Len(all_rows) <= Len(all_rows')
         /\ SubSeq(all_rows', 1, Len(all_rows)) = all_rows
         /\ Cardinality(seen_keys') - Cardinality(seen_keys)
                = Len(all_rows') - Len(all_rows)
         /\ IF log' # log /\ log'[Len(log')].kind = "page"
            THEN /\ Len(all_rows') - Len(all_rows) = last'.new_count
                 /\ seen_keys' = seen_keys \cup C29_RowKeys(last'.validated)
                 /\ (~last'.ok \/ last'.products = 0 \/ last'.new_count = 0) =>
                        seen_keys' = seen_keys /\ all_rows' = all_rows
            ELSE seen_keys' = seen_keys /\ all_rows' = all_rows

\* C29: at every point of a category harvest the seen-key set is exactly the set of
\* (mpn, lcsc_code) keys of the records accumulated so far: both only grow, together
\* and by one element for each accepted record, and neither is changed by a
\* duplicate, by an empty page or by a failed fetch.
C29_SeenKeysAreRowKeys == []C29_State /\ [][C29_Step]_vars

\* the second page of a category brought a record whose key page 1 had given: the
\* two rows and the two keys of page 1 are what the harvest holds
C29_Witness ==
    /\ Len(PageEntries(idx)) = 2
    /\ last.products = 1 /\ last.new_count = 0
    /\ Len(all_rows) = 2 /\ Cardinality(seen_keys) = 2
    /\ <<last.validated[1].mpn, last.validated[1].lcsc_code>> \in seen_keys
    /\ all_rows[2].page = 1

-----------------------------------------------------------------------------
(* C30: the two places of the id range filter *)

\* C30: for every index page and every range, filtering inside discovery, before
\* the names are looked at and the ids deduplicated (rangeWithSpecs.py), gives the
\* same ordered list of categories, with the same url and name for each id, as
\* discovering all the categories and filtering the deduplicated list (range.py).
C30_FilterPlacesAgree ==
    (prog = "discover" /\ pc = "returned") =>
        /\ Len(last.inside) = Len(last.after)
        /\ \A i \in 1..Len(last.inside) :
               /\ last.inside[i].cat_id = last.after[i].cat_id
               /\ last.inside[i].url = last.after[i].url
               /\ last.inside[i].name = last.after[i].name

\* an index page with categories below, inside and above the range 12..51, ids that
\* repeat and a "View All" anchor: both ways give the categories 12 and 51
C30_Witness ==
    /\ prog = "discover" /\ pc = "returned"
    /\ last.lo = 12 /\ last.hi = 51
    /\ Len(GetAllCategoryUrls(last.html)) > 2
    /\ Len(last.inside) = 2
    /\ last.inside[1].cat_id = 12 /\ last.after[1].cat_id = 12
    /\ last.inside[2].cat_id = 51 /\ last.after[2].cat_id = 51

-----------------------------------------------------------------------------
(* C27: sheet names *)

\* the names returned so far are pairwise distinct and are in the used-set
C27_State ==
    prog = "sheets" =>
        /\ \A i, j \in 1..Len(last.names) : last.names[i] = last.names[j] => i = j
        /\ \A i \in 1..Len(last.names) : last.names[i] \in last.used

\* a call returns a name that was not in the used-set, adds it, and removes none
C27_Step ==
    (prog = "sheets" /\ last' # last) =>
        LET name == last'.names[Len(last'.names)]
        IN  /\ name \notin last.used
            /\ last'.used = last.used \cup {name}
            /\ last'.names = Append(last.names, name)

\* C27: for any sequence of calls to make_excel_sheet_name that share one used-set
\* the names returned are pairwise distinct, also when raw names are the same once
\* sanitized or once cut to 31 characters; each name returned is in the used-set
\* afterwards; and no name of the used-set is removed or returned again.
C27_SheetNamesDistinct == []C27_State /\ [][C27_Step]_vars

\* a name of 33 characters was named, then another with the same first 31, then
\* "A/B": the names are the 31 characters, their first 28 with _1, and A_B
C27_Witness ==
    /\ prog = "sheets"
    /\ Len(last.names) = 3
    /\ last.bases[1] = LongName("a") /\ last.bases[2] = LongName("b")
    /\ last.names[1] = Prefix(LongName("a"), 31)
    /\ last.names[2] = Prefix(LongName("a"), 28) \o <<"_", "1">>
    /\ last.bases[3] = <<"A", "/", "B">>
    /\ last.names[3] = <<"A", "_", "B">>

-----------------------------------------------------------------------------
(* C28: the base of a sheet name *)

\* the lowest level of the category names of a record that is not empty, and the
\* menu name when the record has none
C28_LowestName(row, cat_name) ==
    IF row.childcategory # <<>> THEN row.childcategory
    ELSE IF row.subcategory # <<>> THEN row.subcategory
    ELSE IF row.category # <<>> THEN row.category
    ELSE cat_name

\* C28: the base of the sheet name of a category is the childcategory name of its
\* harvested records if there is one, otherwise the subcategory name, otherwise the
\* category name, otherwise the discovered menu name: when the childcategory of the
\* first record is empty and its subcategory (or category) is not, the sheet is named
\* after the subcategory (or category).
C28_SheetBaseByLevel ==
    prog = "sheets" =>
        \A k \in 1..Len(last.calls) :
            last.bases[k] = C28_LowestName(last.calls[k].rows[1], last.calls[k].cat_name)

-----------------------------------------------------------------------------
(* C22: determinism *)

\* the records of a harvest, as a set
C22_Records(rows) == {rows[i] : i \in 1..Len(rows)}

\* the answer the service is fixed to give for page n of catalog id
C22_Answer(id, n) == replay[1].responses.pages[<<id, n>>]

\* the items of that answer that pass for products (mpn of two characters or more,
\* a code of "C" and four digits or more, a manufacturer), in the order of the page;
\* none when the request fails
C22_Accepted(id, n) ==
    LET Sound(item) == ~C15_Unsound(C15_ItemCandidate[item])
    IN  IF C22_Answer(id, n).status = "ok"
        THEN SelectSeq(C22_Answer(id, n).dataList, Sound)
        ELSE <<>>

\* the number of pages the answer to page 1 and MAX_PAGES allow for the category
C22_Allowed(id) ==
    LET total == IF C22_Answer(id, 1).totalPage = None THEN 1
                 ELSE C22_Answer(id, 1).totalPage[1]
    IN  IF max_pages > 0 /\ max_pages < total THEN max_pages ELSE total

\* the pages whose records are harvested: page 1, and the allowed pages after it,
\* as long as no page before had nothing to give
C22_PagesRead(id) ==
    {n \in RerunPages : /\ n = 1 \/ n <= C22_Allowed(id)
                    /\ \A m \in 1..n : C22_Accepted(id, m) # <<>>}

\* the description of an item: that of the page answer, or else the one its detail
\* page is fixed to give
C22_Description(item) ==
    LET code == C15_ItemCandidate[item].lcsc_code
        detail == IF code \in DOMAIN replay[1].responses.detail
                  THEN replay[1].responses.detail[code] ELSE None
    IN  IF C19_ItemDescription[item] # <<>> THEN C19_ItemDescription[item]
        ELSE IF detail = None THEN <<>>
        ELSE DetailDescription(DetailGroup(detail[1]))

\* the record of an item of page n
C22_Record(item, n) ==
    C15_ItemCandidate[item] @@
    [description |-> C22_Description(item),
     category |-> Strip(item.firstWmCatalogNameEn),
     subcategory |-> Strip(item.secondWmCatalogNameEn),
     childcategory |-> Strip(item.thirdWmCatalogNameEn),
     page |-> n]

\* the records the fixed service determines for catalog id: of every key on the
\* pages read, the record of its first occurrence
C22_Determined(id) ==
    LET Key(n, i) == <<C15_ItemCandidate[C22_Accepted(id, n)[i]].mpn,
                       C15_ItemCandidate[C22_Accepted(id, n)[i]].lcsc_code>>
        Places == {place \in C22_PagesRead(id) \X (1..3) :
                      place[2] <= Len(C22_Accepted(id, place[1]))}
        Earlier(p, q) == p[1] < q[1] \/ (p[1] = q[1] /\ p[2] < q[2])
        First(q) == \A p \in Places : Earlier(p, q) => Key(p[1], p[2]) # Key(q[1], q[2])
    IN  {C22_Record(C22_Accepted(id, place[1])[place[2]], place[1]) :
            place \in {q \in Places : First(q)}}

\* what a run harvested, category by category: the URL and the set of records
C22_Harvest(harvested) ==
    [k \in 1..Len(harvested) |->
        [url |-> harvested[k].url, records |-> C22_Records(harvested[k].rows)]]

\* C22: two harvests run against the same fixed mapping from requests to responses
\* (the same index page, the same page and detail responses, the same failures)
\* emit the same set of records for every category.  The records returned for a
\* category are those the mapping determines for the id of the category, in the
\* first run and in the second; the second run loops over the categories the first
\* looped over, returns for each of them the set of records the first returned,
\* and ends with the same categories harvested.
C22_SameResponsesSameRecords ==
    (prog = "range" /\ replay # None) =>
        /\ pc = "returned" => C22_Records(all_rows) = C22_Determined(catalog_id[1])
        /\ (replay[1].first # None /\ pc # "main") =>
               /\ cats = replay[1].first[1].cats
               /\ Len(replay[1].harvested) <= Len(replay[1].first[1].harvested)
               /\ \A k \in 1..Len(replay[1].harvested) :
                      C22_Harvest(replay[1].harvested)[k]
                          = C22_Harvest(replay[1].first[1].harvested)[k]
        /\ (replay[1].first # None /\ pc = "returned") =>
               /\ base_url = replay[1].first[1].harvested[idx].url
               /\ C22_Records(all_rows) = C22_Records(replay[1].first[1].harvested[idx].rows)
        /\ (replay[1].first # None /\ pc = "done") =>
               C22_Harvest(replay[1].harvested) = C22_Harvest(replay[1].first[1].harvested)

\* the second run of range.py has come to the end of the second of two categories.
\* Page 2 of the first category failed both times; the second category starts with
\* a key the first category emitted, takes its description from the detail page,
\* and meets the key again on its page 2.  Both runs returned the same records
\* for both categories.
C22_Witness ==
    /\ prog = "range" /\ replay # None /\ replay[1].first # None
    /\ pc = "returned" /\ idx = 2 /\ Len(cats) = 2
    /\ replay[1].responses.pages[<<cats[1].cat_id, 2>>].status = "timeout"
    /\ Len(replay[1].first[1].harvested[1].rows) = 1
    /\ replay[1].harvested[1].rows = replay[1].first[1].harvested[1].rows
    /\ Len(all_rows) = 2
    /\ all_rows[1].mpn = replay[1].harvested[1].rows[1].mpn
    /\ all_rows[1].lcsc_code = replay[1].harvested[1].rows[1].lcsc_code
    /\ all_rows[1].description = CleanDescription(SubSeq(DetailDual, 18, 43))
    /\ all_rows = replay[1].first[1].harvested[2].rows
    /\ page = 2 /\ last.products > last.new_count

====
